---- MODULE Spec2Model ----
(***************************************************************************)
(* King of the hill: the game-state coordinator of src/main/main.c.        *)
(*                                                                         *)
(* Three contexts share the globals game_state, team_color and             *)
(* current_game_time and the FreeRTOS queue network_queue:                 *)
(*   - button_isr_handler, the GPIO interrupt handler of both buttons;     *)
(*   - the countdown loop at the end of app_main (one pass per second);    *)
(*   - network_task / send_game_data, the delivery worker.                 *)
(* Each is modelled statement by statement: one action per statement that  *)
(* reads or writes shared state, named after the statement's line.         *)
(*                                                                         *)
(* Scheduling.  gpio_install_isr_service is called by app_main, so the     *)
(* handler is an interrupt of the core that runs app_main: it can start    *)
(* between any two statements of the countdown loop, and the loop does not *)
(* run again before the handler has returned.  GPIO handlers are           *)
(* dispatched one after the other, so there is one invocation at a time.   *)
(* The tasks made with xTaskCreate have no core affinity and interleave    *)
(* freely with the handler and with the loop.                              *)
(***************************************************************************)
EXTENDS Integers, Sequences, FiniteSets, TLC

VARIABLES
    game_state,         \* GameState  game_state
    team_color,         \* TeamColor  team_color
    current_game_time,  \* int        current_game_time
    game_time_seconds,  \* const int  game_time_seconds (fixed at start)
    buzzer_state,       \* BuzzerState buzzer_state
    network_queue,      \* the items held by network_queue, oldest first
    isr_pc,             \* button_isr_handler: the statement it is at
    isr_pin,            \* button_isr_handler: its argument
    isr_entry,          \* the game state the running invocation found
    isr_msg,            \* button_isr_handler: its message buffer
    isr_sent,           \* the items the running invocation has enqueued
    main_pc,            \* app_main's loop: the statement it is at
    main_msg,           \* app_main's loop: halfway_message / end_message
    net_pc,             \* network_task: the statement it is at
    net_msg,            \* network_task: char message[256]
    attempt,            \* send_game_data: int attempt
    err,                \* send_game_data: esp_err_t err
    halfway_count,      \* history: halfway messages enqueued in this game
    ticks,              \* history: passes of the countdown begun in this game
    tries,              \* history: esp_http_client_perform calls for net_msg
    pending,            \* history: the messages sent and not yet received
    buz_pc,             \* buzzer_task: the statement it is at
    end_game_beep_done, \* bool end_game_beep_done
    beep_polls,         \* buzzer_task: beep_time_ms / check_interval_ms
    buzzer_on,          \* the level of BUZZER_PIN set by set_buzzer
    buz_seen,           \* history: the values of game_state that the
                        \* running pass of buzzer_task has read
    press_budget,       \* the button edges a limited environment has left
    disp_pc,            \* display_task: the statement it is at
    disp_view,          \* what the running pass of display_task has read
    led_pc,             \* led_task: the statement it is at
    led_view,           \* what the running pass of led_task has read
    pass_sent,          \* history: the kinds of message that the running
                        \* pass of the countdown loop has enqueued so far,
                        \* while it can still enqueue another
    winner,             \* history: team_color when the countdown loop wrote
                        \* GAME_FINISHED, until it has sent its message
    http_status,        \* the answer of the sink to the last attempt: what
                        \* esp_http_client_get_status_code(client) returns
    sink,               \* the answers the sink can give (fixed at start)
    last_press          \* history: the pin of the last press handled in
                        \* the game that is on or finished; 0 without one

gameVars == <<game_state, team_color, current_game_time>>
isrVars  == <<isr_pc, isr_pin, isr_entry, isr_msg, isr_sent>>
mainVars == <<main_pc, main_msg>>
netVars  == <<net_pc, net_msg, attempt, err>>
histVars == <<halfway_count, ticks, tries, pending>>
buzVars  == <<buz_pc, end_game_beep_done, beep_polls, buzzer_on, buz_seen>>
rdrVars  == <<disp_pc, disp_view, led_pc, led_view>>
vars == <<game_state, team_color, current_game_time, game_time_seconds,
          buzzer_state, network_queue, isr_pc, isr_pin, isr_entry, isr_msg,
          isr_sent, main_pc, main_msg, net_pc, net_msg, attempt, err,
          halfway_count, ticks, tries, pending, buz_pc, end_game_beep_done,
          beep_polls, buzzer_on, buz_seen, press_budget, disp_pc, disp_view,
          led_pc, led_view, pass_sent, winner, http_status, sink,
          last_press>>

----------------------------------------------------------------------------
(* Constants of the program *)

LEFT_BUTTON_PIN == 47
RIGHT_BUTTON_PIN == 21
max_retries == 3

\* Bounds of the model.  The source plays a game of 900 s over a queue of 10
\* items; the model plays a game of TotalSeconds seconds over a queue of
\* QueueBound items, small enough to explore every interleaving of whole
\* episodes with the queue running full.
TotalSeconds == 4
QueueBound == 3

\* The game of the scenario of one claim and no further press, and the game
\* under which the progress of the delivery worker is checked.
ScenarioSeconds == 10
FairSeconds == 1

\* The game, the button edges and the length of the alarm (100 polls of
\* 100 ms in the source) under which buzzer_task is checked.
BuzzerSeconds == 1
MaxPresses == 3
AlarmPolls == 2

\* The game under which all the workers run together.
WorkersSeconds == 1

\* The longest of the very short games: game_time_seconds from 0 to here.
TinySeconds == 1

\* The game under which the sink can reject a message.
SinkSeconds == 1

\* The game length of the specification with every context scheduled fairly.
LiveSeconds == 1

\* The game length and the number of button presses of the specification
\* with buzzer_task scheduled fairly.
AlarmSeconds == 1
AlarmPresses == 2

\* #define QUEUE_SIZE, the capacity of network_queue
QUEUE_SIZE == QueueBound

Pins == {LEFT_BUTTON_PIN, RIGHT_BUTTON_PIN}
GameStates == {"GAME_OFF", "GAME_PLAYING", "GAME_FINISHED"}
TeamColors == {"NONE", "LEFT_RED", "RIGHT_BLUE"}
BuzzerStates == {"BUZZER_OFF", "BUZZER_SECONDS", "BUZZER_FINISHED"}

----------------------------------------------------------------------------
(* Messages *)

\* The content of a message buffer that holds no formatted message.
NoMsg == [kind |-> "NONE", team |-> "", time |-> <<>>]

\* team_color == LEFT_RED ? "RED" : "BLUE", the operand of every snprintf
TeamName(tc) == IF tc = "LEFT_RED" THEN "RED" ELSE "BLUE"

\* format_time: "%02d:%02d" of the minutes and the seconds
format_time(remaining_time) == <<remaining_time \div 60, remaining_time % 60>>

\* "GAME OVER: %s has won!"
GameOverMessage(tc) ==
    [kind |-> "GAME_OVER", team |-> TeamName(tc), time |-> <<>>]

\* "%s took the hill. GAME STARTED!"
GameStartedMessage(tc) ==
    [kind |-> "GAME_STARTED", team |-> TeamName(tc), time |-> <<>>]

\* "%s took the hill! Time left: %s"
TookTheHillMessage(tc, t) ==
    [kind |-> "TOOK_THE_HILL", team |-> TeamName(tc),
     time |-> format_time(game_time_seconds - t)]

\* "HALFWAY: %s is holding the hill, time left: %s"
HalfwayMessage(tc, t) ==
    [kind |-> "HALFWAY", team |-> TeamName(tc),
     time |-> format_time(game_time_seconds - t)]

----------------------------------------------------------------------------
(* network_queue = xQueueCreate(QUEUE_SIZE, sizeof(char[256])) *)

\* QueueHasRoom of a queue that takes items without limit.
QueueHasRoom_Always == TRUE

\* xQueueSend(network_queue, &m, portMAX_DELAY) returns only once the queue
\* has a free slot: the caller waits while the queue is full.
QueueHasRoom == Len(network_queue) < QUEUE_SIZE

\* xQueueSend keeping a reference to the sender's buffer instead of a copy:
\* every item of the same kind shows what the buffer holds now.
xQueueSend_ByReference(m) ==
    Append([i \in 1..Len(network_queue) |->
               IF network_queue[i].kind = m.kind THEN m
               ELSE network_queue[i]], m)

\* The queue after xQueueSend has copied the item m to its back.
xQueueSend(m) == Append(network_queue, m)

\* The program after app_main has made its tasks, for a game of `total`
\* seconds: the initial values of the globals, an empty queue, every context
\* at the top of its loop.  `budget` is the number of button edges of an
\* environment that presses a limited number of times, 0 where the presses
\* are not limited; `answers` are the answers the sink can give to a request
\* that reaches it.
InitialState(total, budget, answers) ==
    /\ game_state = "GAME_OFF"
    /\ team_color = "NONE"
    /\ current_game_time = 0
    /\ game_time_seconds = total
    /\ buzzer_state = "BUZZER_OFF"
    /\ network_queue = <<>>
    /\ isr_pc = "idle"
    /\ isr_pin = 0
    /\ isr_entry = <<"GAME_OFF", "NONE", 0>>
    /\ isr_msg = NoMsg
    /\ isr_sent = <<>>
    /\ main_pc = "m797"
    /\ main_msg = NoMsg
    /\ net_pc = "receive"
    /\ net_msg = NoMsg
    /\ attempt = 0
    /\ err = "ESP_OK"
    /\ halfway_count = 0
    /\ ticks = 0
    /\ tries = 0
    /\ pending = <<>>
    /\ buz_pc = "b303"
    /\ end_game_beep_done = FALSE
    /\ beep_polls = 0
    /\ buzzer_on = FALSE
    /\ buz_seen = {}
    /\ press_budget = budget
    /\ disp_pc = "d472"
    /\ disp_view = [phase |-> "-", holder |-> "-", elapsed |-> -1]
    /\ led_pc = "e407"
    /\ led_view = [phase |-> "-", holder |-> "-", elapsed |-> -1]
    /\ pass_sent = {}
    /\ winner = "NONE"
    /\ http_status = "none"
    /\ last_press = 0
    /\ sink = answers

Init == InitialState(TotalSeconds, 0, {"2xx"})

----------------------------------------------------------------------------
(* button_isr_handler(void *arg), lines 545-616 *)

\* The statements at which the handler hands its message to xQueueSend.
IsrSendPcs == {"l560", "l583", "l614"}

\* The team a button stands for: the assignments of lines 571-578 and
\* 600-607.  A pin that is neither button leaves team_color as it is.
TeamOfPin(pin, tc) ==
    IF pin = LEFT_BUTTON_PIN THEN "LEFT_RED"
    ELSE IF pin = RIGHT_BUTTON_PIN THEN "RIGHT_BLUE"
    ELSE tc

\* HolderPressed with the guard of the right button missing.
HolderPressed_LeftOnly(pin, tc) ==
    tc = "LEFT_RED" /\ pin = LEFT_BUTTON_PIN

\* The guard of lines 591-598: the pressing team already holds the hill.
HolderPressed(pin, tc) ==
    \/ tc = "LEFT_RED" /\ pin = LEFT_BUTTON_PIN
    \/ tc = "RIGHT_BLUE" /\ pin = RIGHT_BUTTON_PIN

\* A rising edge on a button: the handler starts, int pin = (int)arg.
IsrEnter(pin) ==
    /\ isr_pc = "idle"
    /\ isr_pc' = "l551"
    /\ press_budget' = IF press_budget > 0 THEN press_budget - 1 ELSE 0
    /\ isr_pin' = pin
    /\ last_press' = pin
    /\ isr_entry' = <<game_state, team_color, current_game_time>>
    /\ isr_sent' = <<>>
    /\ UNCHANGED <<gameVars, game_time_seconds, buzzer_state, network_queue,
                   isr_msg, mainVars, netVars>>
    /\ UNCHANGED <<halfway_count, ticks, tries>>
    /\ UNCHANGED <<pending>>
    /\ UNCHANGED buzVars
    /\ UNCHANGED rdrVars
    /\ UNCHANGED <<pass_sent>>
    /\ UNCHANGED <<winner>>
    /\ UNCHANGED <<http_status>>
    /\ UNCHANGED <<sink>>

\* if (game_state == GAME_FINISHED)
Isr551 ==
    /\ isr_pc = "l551"
    /\ isr_pc' = IF game_state = "GAME_FINISHED" THEN "l553" ELSE "l566"
    /\ UNCHANGED <<gameVars, game_time_seconds, buzzer_state, network_queue,
                   isr_pin, isr_entry, isr_msg, isr_sent, mainVars, netVars>>
    /\ UNCHANGED <<halfway_count, ticks, tries>>
    /\ UNCHANGED <<pending>>
    /\ UNCHANGED <<buzVars, press_budget>>
    /\ UNCHANGED rdrVars
    /\ UNCHANGED <<pass_sent>>
    /\ UNCHANGED <<winner>>
    /\ UNCHANGED <<http_status>>
    /\ UNCHANGED <<sink>>
    /\ UNCHANGED <<last_press>>

\* Isr553 with the reset starting the next game at once.
Isr553_RestartsGame ==
    /\ isr_pc = "l553"
    /\ game_state' = "GAME_PLAYING"
    /\ last_press' = 0
    /\ isr_pc' = "l554"
    /\ UNCHANGED <<team_color, current_game_time, game_time_seconds,
                   buzzer_state, network_queue, isr_pin, isr_entry, isr_msg,
                   isr_sent, mainVars, netVars>>
    /\ UNCHANGED <<halfway_count, ticks, tries>>
    /\ UNCHANGED <<pending>>
    /\ UNCHANGED <<buzVars, press_budget>>
    /\ UNCHANGED rdrVars
    /\ UNCHANGED <<pass_sent>>
    /\ UNCHANGED <<winner>>
    /\ UNCHANGED <<http_status>>
    /\ UNCHANGED <<sink>>

\* game_state = GAME_OFF;
Isr553 ==
    /\ isr_pc = "l553"
    /\ game_state' = "GAME_OFF"
    /\ last_press' = 0
    /\ isr_pc' = "l554"
    /\ UNCHANGED <<team_color, current_game_time, game_time_seconds,
                   buzzer_state, network_queue, isr_pin, isr_entry, isr_msg,
                   isr_sent, mainVars, netVars>>
    /\ UNCHANGED <<halfway_count, ticks, tries>>
    /\ UNCHANGED <<pending>>
    /\ UNCHANGED <<buzVars, press_budget>>
    /\ UNCHANGED rdrVars
    /\ UNCHANGED <<pass_sent>>
    /\ UNCHANGED <<winner>>
    /\ UNCHANGED <<http_status>>
    /\ UNCHANGED <<sink>>

\* Isr554 with the reset leaving the holder as it is.
Isr554_KeepsHolder ==
    /\ isr_pc = "l554"
    /\ isr_pc' = "l555"
    /\ UNCHANGED <<gameVars, game_time_seconds, buzzer_state, network_queue,
                   isr_pin, isr_entry, isr_msg, isr_sent, mainVars, netVars>>
    /\ UNCHANGED <<halfway_count, ticks, tries>>
    /\ UNCHANGED <<pending>>
    /\ UNCHANGED <<buzVars, press_budget>>
    /\ UNCHANGED rdrVars
    /\ UNCHANGED <<pass_sent>>
    /\ UNCHANGED <<winner>>
    /\ UNCHANGED <<http_status>>
    /\ UNCHANGED <<sink>>
    /\ UNCHANGED <<last_press>>

\* team_color = NONE;
Isr554 ==
    /\ isr_pc = "l554"
    /\ team_color' = "NONE"
    /\ isr_pc' = "l555"
    /\ UNCHANGED <<game_state, current_game_time, game_time_seconds,
                   buzzer_state, network_queue, isr_pin, isr_entry, isr_msg,
                   isr_sent, mainVars, netVars>>
    /\ UNCHANGED <<halfway_count, ticks, tries>>
    /\ UNCHANGED <<pending>>
    /\ UNCHANGED <<buzVars, press_budget>>
    /\ UNCHANGED rdrVars
    /\ UNCHANGED <<pass_sent>>
    /\ UNCHANGED <<winner>>
    /\ UNCHANGED <<http_status>>
    /\ UNCHANGED <<sink>>
    /\ UNCHANGED <<last_press>>

\* Isr555 with the reset leaving the elapsed time as it is.
Isr555_KeepsTime ==
    /\ isr_pc = "l555"
    /\ isr_pc' = "l558"
    /\ UNCHANGED <<gameVars, game_time_seconds, buzzer_state, network_queue,
                   isr_pin, isr_entry, isr_msg, isr_sent, mainVars, netVars>>
    /\ UNCHANGED <<halfway_count, ticks, tries>>
    /\ UNCHANGED <<pending>>
    /\ UNCHANGED <<buzVars, press_budget>>
    /\ UNCHANGED rdrVars
    /\ UNCHANGED <<pass_sent>>
    /\ UNCHANGED <<winner>>
    /\ UNCHANGED <<http_status>>
    /\ UNCHANGED <<sink>>
    /\ UNCHANGED <<last_press>>

\* current_game_time = 0;
Isr555 ==
    /\ isr_pc = "l555"
    /\ current_game_time' = 0
    /\ isr_pc' = "l558"
    /\ UNCHANGED <<game_state, team_color, game_time_seconds, buzzer_state,
                   network_queue, isr_pin, isr_entry, isr_msg, isr_sent,
                   mainVars, netVars>>
    /\ UNCHANGED <<halfway_count, ticks, tries>>
    /\ UNCHANGED <<pending>>
    /\ UNCHANGED <<buzVars, press_budget>>
    /\ UNCHANGED rdrVars
    /\ UNCHANGED <<pass_sent>>
    /\ UNCHANGED <<winner>>
    /\ UNCHANGED <<http_status>>
    /\ UNCHANGED <<sink>>
    /\ UNCHANGED <<last_press>>

\* snprintf(end_message, ..., "GAME OVER: %s has won!", team_color == ...)
Isr558 ==
    /\ isr_pc = "l558"
    /\ isr_msg' = GameOverMessage(team_color)
    /\ isr_pc' = "l560"
    /\ UNCHANGED <<gameVars, game_time_seconds, buzzer_state, network_queue,
                   isr_pin, isr_entry, isr_sent, mainVars, netVars>>
    /\ UNCHANGED <<halfway_count, ticks, tries>>
    /\ UNCHANGED <<pending>>
    /\ UNCHANGED <<buzVars, press_budget>>
    /\ UNCHANGED rdrVars
    /\ UNCHANGED <<pass_sent>>
    /\ UNCHANGED <<winner>>
    /\ UNCHANGED <<http_status>>
    /\ UNCHANGED <<sink>>
    /\ UNCHANGED <<last_press>>

\* IsrSend with the return of line 562 missing: the reset falls through to
\* the test of line 566.
IsrSend_NoReturn ==
    /\ isr_pc \in IsrSendPcs
    /\ QueueHasRoom
    /\ network_queue' = xQueueSend(isr_msg)
    /\ pending' = Append(pending, isr_msg)
    /\ isr_sent' = Append(isr_sent, isr_msg)
    /\ isr_msg' = NoMsg
    /\ isr_pc' = IF isr_pc = "l560" THEN "l566" ELSE "ret"
    /\ UNCHANGED <<gameVars, game_time_seconds, buzzer_state, isr_pin,
                   isr_entry, mainVars, netVars>>
    /\ UNCHANGED <<halfway_count, ticks, tries>>
    /\ UNCHANGED <<buzVars, press_budget>>
    /\ UNCHANGED rdrVars
    /\ UNCHANGED <<pass_sent>>
    /\ UNCHANGED <<winner>>
    /\ UNCHANGED <<http_status>>
    /\ UNCHANGED <<sink>>
    /\ UNCHANGED <<last_press>>

\* xQueueSend(network_queue, &..., portMAX_DELAY); of lines 560, 583 and 614,
\* each followed by the handler's return.
IsrSend ==
    /\ isr_pc \in IsrSendPcs
    /\ QueueHasRoom
    /\ network_queue' = xQueueSend(isr_msg)
    /\ pending' = Append(pending, isr_msg)
    /\ isr_sent' = Append(isr_sent, isr_msg)
    /\ isr_msg' = NoMsg
    /\ isr_pc' = "ret"
    /\ UNCHANGED <<gameVars, game_time_seconds, buzzer_state, isr_pin,
                   isr_entry, mainVars, netVars>>
    /\ UNCHANGED <<halfway_count, ticks, tries>>
    /\ UNCHANGED <<buzVars, press_budget>>
    /\ UNCHANGED rdrVars
    /\ UNCHANGED <<pass_sent>>
    /\ UNCHANGED <<winner>>
    /\ UNCHANGED <<http_status>>
    /\ UNCHANGED <<sink>>
    /\ UNCHANGED <<last_press>>

\* if (game_state == GAME_OFF)
Isr566 ==
    /\ isr_pc = "l566"
    /\ isr_pc' = IF game_state = "GAME_OFF" THEN "l568" ELSE "l588"
    /\ UNCHANGED <<gameVars, game_time_seconds, buzzer_state, network_queue,
                   isr_pin, isr_entry, isr_msg, isr_sent, mainVars, netVars>>
    /\ UNCHANGED <<halfway_count, ticks, tries>>
    /\ UNCHANGED <<pending>>
    /\ UNCHANGED <<buzVars, press_budget>>
    /\ UNCHANGED rdrVars
    /\ UNCHANGED <<pass_sent>>
    /\ UNCHANGED <<winner>>
    /\ UNCHANGED <<http_status>>
    /\ UNCHANGED <<sink>>
    /\ UNCHANGED <<last_press>>

\* game_state = GAME_PLAYING;
Isr568 ==
    /\ isr_pc = "l568"
    /\ game_state' = "GAME_PLAYING"
    /\ isr_pc' = "l569"
    /\ halfway_count' = 0
    /\ ticks' = 0
    /\ UNCHANGED <<team_color, current_game_time, game_time_seconds,
                   buzzer_state, network_queue, isr_pin, isr_entry, isr_msg,
                   isr_sent, mainVars, netVars>>
    /\ UNCHANGED <<tries>>
    /\ UNCHANGED <<pending>>
    /\ UNCHANGED <<buzVars, press_budget>>
    /\ UNCHANGED rdrVars
    /\ UNCHANGED <<pass_sent>>
    /\ UNCHANGED <<winner>>
    /\ UNCHANGED <<http_status>>
    /\ UNCHANGED <<sink>>
    /\ UNCHANGED <<last_press>>

\* current_game_time = 0;
Isr569 ==
    /\ isr_pc = "l569"
    /\ current_game_time' = 0
    /\ isr_pc' = "l570"
    /\ UNCHANGED <<game_state, team_color, game_time_seconds, buzzer_state,
                   network_queue, isr_pin, isr_entry, isr_msg, isr_sent,
                   mainVars, netVars>>
    /\ UNCHANGED <<halfway_count, ticks, tries>>
    /\ UNCHANGED <<pending>>
    /\ UNCHANGED <<buzVars, press_budget>>
    /\ UNCHANGED rdrVars
    /\ UNCHANGED <<pass_sent>>
    /\ UNCHANGED <<winner>>
    /\ UNCHANGED <<http_status>>
    /\ UNCHANGED <<sink>>
    /\ UNCHANGED <<last_press>>

\* buzzer_state = BUZZER_SECONDS;
Isr570 ==
    /\ isr_pc = "l570"
    /\ buzzer_state' = "BUZZER_SECONDS"
    /\ isr_pc' = "l571"
    /\ UNCHANGED <<gameVars, game_time_seconds, network_queue, isr_pin,
                   isr_entry, isr_msg, isr_sent, mainVars, netVars>>
    /\ UNCHANGED <<halfway_count, ticks, tries>>
    /\ UNCHANGED <<pending>>
    /\ UNCHANGED <<buzVars, press_budget>>
    /\ UNCHANGED rdrVars
    /\ UNCHANGED <<pass_sent>>
    /\ UNCHANGED <<winner>>
    /\ UNCHANGED <<http_status>>
    /\ UNCHANGED <<sink>>
    /\ UNCHANGED <<last_press>>

\* Isr571 with the two assignments exchanged.
Isr571_OtherTeam ==
    /\ isr_pc = "l571"
    /\ team_color' = IF isr_pin = LEFT_BUTTON_PIN THEN "RIGHT_BLUE"
                     ELSE "LEFT_RED"
    /\ isr_pc' = "l581"
    /\ UNCHANGED <<game_state, current_game_time, game_time_seconds,
                   buzzer_state, network_queue, isr_pin, isr_entry, isr_msg,
                   isr_sent, mainVars, netVars>>
    /\ UNCHANGED <<halfway_count, ticks, tries>>
    /\ UNCHANGED <<pending>>
    /\ UNCHANGED <<buzVars, press_budget>>
    /\ UNCHANGED rdrVars
    /\ UNCHANGED <<pass_sent>>
    /\ UNCHANGED <<winner>>
    /\ UNCHANGED <<http_status>>
    /\ UNCHANGED <<sink>>
    /\ UNCHANGED <<last_press>>

\* if (pin == LEFT_BUTTON_PIN) team_color = LEFT_RED;
\* else if (pin == RIGHT_BUTTON_PIN) team_color = RIGHT_BLUE;
Isr571 ==
    /\ isr_pc = "l571"
    /\ team_color' = TeamOfPin(isr_pin, team_color)
    /\ isr_pc' = "l581"
    /\ UNCHANGED <<game_state, current_game_time, game_time_seconds,
                   buzzer_state, network_queue, isr_pin, isr_entry, isr_msg,
                   isr_sent, mainVars, netVars>>
    /\ UNCHANGED <<halfway_count, ticks, tries>>
    /\ UNCHANGED <<pending>>
    /\ UNCHANGED <<buzVars, press_budget>>
    /\ UNCHANGED rdrVars
    /\ UNCHANGED <<pass_sent>>
    /\ UNCHANGED <<winner>>
    /\ UNCHANGED <<http_status>>
    /\ UNCHANGED <<sink>>
    /\ UNCHANGED <<last_press>>

\* snprintf(message, ..., "%s took the hill. GAME STARTED!", team_color == ...)
Isr581 ==
    /\ isr_pc = "l581"
    /\ isr_msg' = GameStartedMessage(team_color)
    /\ isr_pc' = "l583"
    /\ UNCHANGED <<gameVars, game_time_seconds, buzzer_state, network_queue,
                   isr_pin, isr_entry, isr_sent, mainVars, netVars>>
    /\ UNCHANGED <<halfway_count, ticks, tries>>
    /\ UNCHANGED <<pending>>
    /\ UNCHANGED <<buzVars, press_budget>>
    /\ UNCHANGED rdrVars
    /\ UNCHANGED <<pass_sent>>
    /\ UNCHANGED <<winner>>
    /\ UNCHANGED <<http_status>>
    /\ UNCHANGED <<sink>>
    /\ UNCHANGED <<last_press>>

\* if (game_state == GAME_PLAYING); the handler ends when it is not.
Isr588 ==
    /\ isr_pc = "l588"
    /\ isr_pc' = IF game_state = "GAME_PLAYING" THEN "l591" ELSE "ret"
    /\ UNCHANGED <<gameVars, game_time_seconds, buzzer_state, network_queue,
                   isr_pin, isr_entry, isr_msg, isr_sent, mainVars, netVars>>
    /\ UNCHANGED <<halfway_count, ticks, tries>>
    /\ UNCHANGED <<pending>>
    /\ UNCHANGED <<buzVars, press_budget>>
    /\ UNCHANGED rdrVars
    /\ UNCHANGED <<pass_sent>>
    /\ UNCHANGED <<winner>>
    /\ UNCHANGED <<http_status>>
    /\ UNCHANGED <<sink>>
    /\ UNCHANGED <<last_press>>

\* The guard: return when the team that holds the hill pressed its button.
Isr591 ==
    /\ isr_pc = "l591"
    /\ isr_pc' = IF HolderPressed(isr_pin, team_color) THEN "ret" ELSE "l600"
    /\ UNCHANGED <<gameVars, game_time_seconds, buzzer_state, network_queue,
                   isr_pin, isr_entry, isr_msg, isr_sent, mainVars, netVars>>
    /\ UNCHANGED <<halfway_count, ticks, tries>>
    /\ UNCHANGED <<pending>>
    /\ UNCHANGED <<buzVars, press_budget>>
    /\ UNCHANGED rdrVars
    /\ UNCHANGED <<pass_sent>>
    /\ UNCHANGED <<winner>>
    /\ UNCHANGED <<http_status>>
    /\ UNCHANGED <<sink>>
    /\ UNCHANGED <<last_press>>

\* Isr600 with the assignment to team_color missing.
Isr600_KeepsHolder ==
    /\ isr_pc = "l600"
    /\ team_color' = team_color
    /\ isr_pc' = "l611"
    /\ UNCHANGED <<game_state, current_game_time, game_time_seconds,
                   buzzer_state, network_queue, isr_pin, isr_entry, isr_msg,
                   isr_sent, mainVars, netVars>>
    /\ UNCHANGED <<halfway_count, ticks, tries>>
    /\ UNCHANGED <<pending>>
    /\ UNCHANGED <<buzVars, press_budget>>
    /\ UNCHANGED rdrVars
    /\ UNCHANGED <<pass_sent>>
    /\ UNCHANGED <<winner>>
    /\ UNCHANGED <<http_status>>
    /\ UNCHANGED <<sink>>
    /\ UNCHANGED <<last_press>>

\* if (pin == LEFT_BUTTON_PIN) team_color = LEFT_RED;
\* else if (pin == RIGHT_BUTTON_PIN) team_color = RIGHT_BLUE;
Isr600 ==
    /\ isr_pc = "l600"
    /\ team_color' = TeamOfPin(isr_pin, team_color)
    /\ isr_pc' = "l611"
    /\ UNCHANGED <<game_state, current_game_time, game_time_seconds,
                   buzzer_state, network_queue, isr_pin, isr_entry, isr_msg,
                   isr_sent, mainVars, netVars>>
    /\ UNCHANGED <<halfway_count, ticks, tries>>
    /\ UNCHANGED <<pending>>
    /\ UNCHANGED <<buzVars, press_budget>>
    /\ UNCHANGED rdrVars
    /\ UNCHANGED <<pass_sent>>
    /\ UNCHANGED <<winner>>
    /\ UNCHANGED <<http_status>>
    /\ UNCHANGED <<sink>>
    /\ UNCHANGED <<last_press>>

\* Isr611 with the elapsed time passed to format_time.
Isr611_Elapsed ==
    /\ isr_pc = "l611"
    /\ isr_msg' = [kind |-> "TOOK_THE_HILL", team |-> TeamName(team_color),
                   time |-> format_time(current_game_time)]
    /\ isr_pc' = "l614"
    /\ UNCHANGED <<gameVars, game_time_seconds, buzzer_state, network_queue,
                   isr_pin, isr_entry, isr_sent, mainVars, netVars>>
    /\ UNCHANGED <<halfway_count, ticks, tries>>
    /\ UNCHANGED <<pending>>
    /\ UNCHANGED <<buzVars, press_budget>>
    /\ UNCHANGED rdrVars
    /\ UNCHANGED <<pass_sent>>
    /\ UNCHANGED <<winner>>
    /\ UNCHANGED <<http_status>>
    /\ UNCHANGED <<sink>>
    /\ UNCHANGED <<last_press>>

\* format_time(game_time_seconds - current_game_time, ...);
\* snprintf(message, ..., "%s took the hill! Time left: %s", ...)
Isr611 ==
    /\ isr_pc = "l611"
    /\ isr_msg' = TookTheHillMessage(team_color, current_game_time)
    /\ isr_pc' = "l614"
    /\ UNCHANGED <<gameVars, game_time_seconds, buzzer_state, network_queue,
                   isr_pin, isr_entry, isr_sent, mainVars, netVars>>
    /\ UNCHANGED <<halfway_count, ticks, tries>>
    /\ UNCHANGED <<pending>>
    /\ UNCHANGED <<buzVars, press_budget>>
    /\ UNCHANGED rdrVars
    /\ UNCHANGED <<pass_sent>>
    /\ UNCHANGED <<winner>>
    /\ UNCHANGED <<http_status>>
    /\ UNCHANGED <<sink>>
    /\ UNCHANGED <<last_press>>

\* The handler returns; the interrupted code goes on.
IsrReturn ==
    /\ isr_pc = "ret"
    /\ isr_pc' = "idle"
    /\ isr_pin' = 0
    /\ isr_entry' = <<"GAME_OFF", "NONE", 0>>
    /\ isr_sent' = <<>>
    /\ UNCHANGED <<gameVars, game_time_seconds, buzzer_state, network_queue,
                   isr_msg, mainVars, netVars>>
    /\ UNCHANGED <<halfway_count, ticks, tries>>
    /\ UNCHANGED <<pending>>
    /\ UNCHANGED <<buzVars, press_budget>>
    /\ UNCHANGED rdrVars
    /\ UNCHANGED <<pass_sent>>
    /\ UNCHANGED <<winner>>
    /\ UNCHANGED <<http_status>>
    /\ UNCHANGED <<sink>>
    /\ UNCHANGED <<last_press>>

IsrStatements ==
    \/ Isr551 \/ Isr553 \/ Isr554 \/ Isr555 \/ Isr558
    \/ Isr566 \/ Isr568 \/ Isr569 \/ Isr570 \/ Isr571 \/ Isr581
    \/ Isr588 \/ Isr591 \/ Isr600 \/ Isr611
    \/ IsrSend
    \/ IsrReturn

ButtonIsr ==
    \/ \E pin \in Pins : IsrEnter(pin)
    \/ IsrStatements

----------------------------------------------------------------------------
(* The countdown loop of app_main, lines 795-823.  The loop is the code the *)
(* button interrupt interrupts: it takes no step while the handler runs.   *)

\* Main797 entering the body whatever game_state is.
Main797_AlwaysCounts ==
    /\ main_pc = "m797"
    /\ isr_pc = "idle"
    /\ main_pc' = "m799"
    /\ ticks' = IF ticks <= game_time_seconds THEN ticks + 1 ELSE ticks
    /\ UNCHANGED <<gameVars, game_time_seconds, buzzer_state, network_queue,
                   isrVars, main_msg, netVars>>
    /\ UNCHANGED <<halfway_count, tries>>
    /\ UNCHANGED <<pending>>
    /\ UNCHANGED <<buzVars, press_budget>>
    /\ UNCHANGED rdrVars
    /\ UNCHANGED <<pass_sent>>
    /\ UNCHANGED <<winner>>
    /\ UNCHANGED <<http_status>>
    /\ UNCHANGED <<sink>>
    /\ UNCHANGED <<last_press>>

\* if (game_state == GAME_PLAYING); otherwise straight to the delay.
Main797 ==
    /\ main_pc = "m797"
    /\ isr_pc = "idle"
    /\ main_pc' = IF game_state = "GAME_PLAYING" THEN "m799" ELSE "m822"
    /\ ticks' = IF game_state = "GAME_PLAYING" THEN ticks + 1 ELSE ticks
    /\ UNCHANGED <<gameVars, game_time_seconds, buzzer_state, network_queue,
                   isrVars, main_msg, netVars>>
    /\ UNCHANGED <<halfway_count, tries>>
    /\ UNCHANGED <<pending>>
    /\ UNCHANGED <<buzVars, press_budget>>
    /\ UNCHANGED rdrVars
    /\ UNCHANGED <<pass_sent>>
    /\ UNCHANGED <<winner>>
    /\ UNCHANGED <<http_status>>
    /\ UNCHANGED <<sink>>
    /\ UNCHANGED <<last_press>>

\* Main799 with >= for ==.
Main799_AtLeast ==
    /\ main_pc = "m799"
    /\ isr_pc = "idle"
    /\ main_pc' = IF current_game_time >= game_time_seconds \div 2
                  THEN "m803" ELSE "m808"
    /\ UNCHANGED <<gameVars, game_time_seconds, buzzer_state, network_queue,
                   isrVars, main_msg, netVars>>
    /\ UNCHANGED <<halfway_count, ticks, tries>>
    /\ UNCHANGED <<pending>>
    /\ UNCHANGED <<buzVars, press_budget>>
    /\ UNCHANGED rdrVars
    /\ UNCHANGED <<pass_sent>>
    /\ UNCHANGED <<winner>>
    /\ UNCHANGED <<http_status>>
    /\ UNCHANGED <<sink>>
    /\ UNCHANGED <<last_press>>

\* if (current_game_time == game_time_seconds / 2)
Main799 ==
    /\ main_pc = "m799"
    /\ isr_pc = "idle"
    /\ main_pc' = IF current_game_time = game_time_seconds \div 2
                  THEN "m803" ELSE "m808"
    /\ UNCHANGED <<gameVars, game_time_seconds, buzzer_state, network_queue,
                   isrVars, main_msg, netVars>>
    /\ UNCHANGED <<halfway_count, ticks, tries>>
    /\ UNCHANGED <<pending>>
    /\ UNCHANGED <<buzVars, press_budget>>
    /\ UNCHANGED rdrVars
    /\ UNCHANGED <<pass_sent>>
    /\ UNCHANGED <<winner>>
    /\ UNCHANGED <<http_status>>
    /\ UNCHANGED <<sink>>
    /\ UNCHANGED <<last_press>>

\* format_time(game_time_seconds - current_game_time, ...);
\* snprintf(halfway_message, ..., "HALFWAY: %s is holding the hill, ...")
Main803 ==
    /\ main_pc = "m803"
    /\ isr_pc = "idle"
    /\ main_msg' = HalfwayMessage(team_color, current_game_time)
    /\ main_pc' = "m806"
    /\ UNCHANGED <<gameVars, game_time_seconds, buzzer_state, network_queue,
                   isrVars, netVars>>
    /\ UNCHANGED <<halfway_count, ticks, tries>>
    /\ UNCHANGED <<pending>>
    /\ UNCHANGED <<buzVars, press_budget>>
    /\ UNCHANGED rdrVars
    /\ UNCHANGED <<pass_sent>>
    /\ UNCHANGED <<winner>>
    /\ UNCHANGED <<http_status>>
    /\ UNCHANGED <<sink>>
    /\ UNCHANGED <<last_press>>

\* xQueueSend(network_queue, &halfway_message, portMAX_DELAY);
Main806 ==
    /\ main_pc = "m806"
    /\ isr_pc = "idle"
    /\ pass_sent' = pass_sent \cup {"HALFWAY"}
    /\ QueueHasRoom
    /\ network_queue' = xQueueSend(main_msg)
    /\ pending' = Append(pending, main_msg)
    /\ halfway_count' = halfway_count + 1
    /\ main_msg' = NoMsg
    /\ main_pc' = "m808"
    /\ UNCHANGED <<gameVars, game_time_seconds, buzzer_state, isrVars,
                   netVars>>
    /\ UNCHANGED <<ticks, tries>>
    /\ UNCHANGED <<buzVars, press_budget>>
    /\ UNCHANGED rdrVars
    /\ UNCHANGED <<winner>>
    /\ UNCHANGED <<http_status>>
    /\ UNCHANGED <<sink>>
    /\ UNCHANGED <<last_press>>

\* Main808 with <= for <.
Main808_OffByOne ==
    /\ main_pc = "m808"
    /\ isr_pc = "idle"
    /\ IF current_game_time <= game_time_seconds
       THEN /\ current_game_time' = current_game_time + 1
            /\ pass_sent' = {}
            /\ main_pc' = "m822"
       ELSE /\ current_game_time' = current_game_time
            /\ pass_sent' = pass_sent
            /\ main_pc' = "m814"
    /\ UNCHANGED <<game_state, team_color, game_time_seconds, buzzer_state,
                   network_queue, isrVars, main_msg, netVars>>
    /\ UNCHANGED <<halfway_count, ticks, tries>>
    /\ UNCHANGED <<pending>>
    /\ UNCHANGED <<buzVars, press_budget>>
    /\ UNCHANGED rdrVars
    /\ UNCHANGED <<winner>>
    /\ UNCHANGED <<http_status>>
    /\ UNCHANGED <<sink>>
    /\ UNCHANGED <<last_press>>

\* Main808 counting the second only when the last delivery attempt succeeded.
Main808_WaitsForDelivery ==
    /\ main_pc = "m808"
    /\ isr_pc = "idle"
    /\ IF current_game_time < game_time_seconds
       THEN /\ current_game_time' =
                  IF err = "ESP_OK" THEN current_game_time + 1
                  ELSE current_game_time
            /\ pass_sent' = {}
            /\ main_pc' = "m822"
       ELSE /\ current_game_time' = current_game_time
            /\ pass_sent' = pass_sent
            /\ main_pc' = "m814"
    /\ UNCHANGED <<game_state, team_color, game_time_seconds, buzzer_state,
                   network_queue, isrVars, main_msg, netVars>>
    /\ UNCHANGED <<halfway_count, ticks, tries>>
    /\ UNCHANGED <<pending>>
    /\ UNCHANGED <<buzVars, press_budget>>
    /\ UNCHANGED rdrVars
    /\ UNCHANGED <<winner>>
    /\ UNCHANGED <<http_status>>
    /\ UNCHANGED <<sink>>
    /\ UNCHANGED <<last_press>>

\* if (current_game_time < game_time_seconds) current_game_time++;
\* else: on to line 814
Main808 ==
    /\ main_pc = "m808"
    /\ isr_pc = "idle"
    /\ IF current_game_time < game_time_seconds
       THEN /\ current_game_time' = current_game_time + 1
            /\ pass_sent' = {}
            /\ main_pc' = "m822"
       ELSE /\ current_game_time' = current_game_time
            /\ pass_sent' = pass_sent
            /\ main_pc' = "m814"
    /\ UNCHANGED <<game_state, team_color, game_time_seconds, buzzer_state,
                   network_queue, isrVars, main_msg, netVars>>
    /\ UNCHANGED <<halfway_count, ticks, tries>>
    /\ UNCHANGED <<pending>>
    /\ UNCHANGED <<buzVars, press_budget>>
    /\ UNCHANGED rdrVars
    /\ UNCHANGED <<winner>>
    /\ UNCHANGED <<http_status>>
    /\ UNCHANGED <<sink>>
    /\ UNCHANGED <<last_press>>

\* game_state = GAME_FINISHED;
Main814 ==
    /\ main_pc = "m814"
    /\ isr_pc = "idle"
    /\ winner' = team_color
    /\ game_state' = "GAME_FINISHED"
    /\ main_pc' = "m816"
    /\ UNCHANGED <<team_color, current_game_time, game_time_seconds,
                   buzzer_state, network_queue, isrVars, main_msg, netVars>>
    /\ UNCHANGED <<halfway_count, ticks, tries>>
    /\ UNCHANGED <<pending>>
    /\ UNCHANGED <<buzVars, press_budget>>
    /\ UNCHANGED rdrVars
    /\ UNCHANGED <<pass_sent>>
    /\ UNCHANGED <<http_status>>
    /\ UNCHANGED <<sink>>
    /\ UNCHANGED <<last_press>>

\* snprintf(end_message, ..., "GAME OVER: %s has won!", team_color == ...)
Main816 ==
    /\ main_pc = "m816"
    /\ isr_pc = "idle"
    /\ main_msg' = GameOverMessage(team_color)
    /\ main_pc' = "m818"
    /\ UNCHANGED <<gameVars, game_time_seconds, buzzer_state, network_queue,
                   isrVars, netVars>>
    /\ UNCHANGED <<halfway_count, ticks, tries>>
    /\ UNCHANGED <<pending>>
    /\ UNCHANGED <<buzVars, press_budget>>
    /\ UNCHANGED rdrVars
    /\ UNCHANGED <<pass_sent>>
    /\ UNCHANGED <<winner>>
    /\ UNCHANGED <<http_status>>
    /\ UNCHANGED <<sink>>
    /\ UNCHANGED <<last_press>>

\* xQueueSend(network_queue, &end_message, portMAX_DELAY);
Main818 ==
    /\ main_pc = "m818"
    /\ isr_pc = "idle"
    /\ pass_sent' = {}
    /\ QueueHasRoom
    /\ network_queue' = xQueueSend(main_msg)
    /\ pending' = Append(pending, main_msg)
    /\ winner' = "NONE"
    /\ main_msg' = NoMsg
    /\ main_pc' = "m822"
    /\ UNCHANGED <<gameVars, game_time_seconds, buzzer_state, isrVars,
                   netVars>>
    /\ UNCHANGED <<halfway_count, ticks, tries>>
    /\ UNCHANGED <<buzVars, press_budget>>
    /\ UNCHANGED rdrVars
    /\ UNCHANGED <<http_status>>
    /\ UNCHANGED <<sink>>
    /\ UNCHANGED <<last_press>>

\* vTaskDelay(pdMS_TO_TICKS(1000)); and the next pass of while (1)
Main822 ==
    /\ main_pc = "m822"
    /\ isr_pc = "idle"
    /\ main_pc' = "m797"
    /\ UNCHANGED <<gameVars, game_time_seconds, buzzer_state, network_queue,
                   isrVars, main_msg, netVars>>
    /\ UNCHANGED <<halfway_count, ticks, tries>>
    /\ UNCHANGED <<pending>>
    /\ UNCHANGED <<buzVars, press_budget>>
    /\ UNCHANGED rdrVars
    /\ UNCHANGED <<pass_sent>>
    /\ UNCHANGED <<winner>>
    /\ UNCHANGED <<http_status>>
    /\ UNCHANGED <<sink>>
    /\ UNCHANGED <<last_press>>

Countdown ==
    \/ Main797 \/ Main799 \/ Main803 \/ Main806 \/ Main808
    \/ Main814 \/ Main816 \/ Main818 \/ Main822

----------------------------------------------------------------------------
(* network_task, lines 258-269, and send_game_data, lines 217-255 *)

\* NetReceive taking the newest item of the queue.
NetReceive_Newest ==
    /\ net_pc = "receive"
    /\ network_queue # <<>>
    /\ net_msg' = network_queue[Len(network_queue)]
    /\ network_queue' = SubSeq(network_queue, 1, Len(network_queue) - 1)
    /\ pending' = Tail(pending)
    /\ attempt' = 0
    /\ http_status' = "none"
    /\ tries' = 0
    /\ net_pc' = "perform"
    /\ UNCHANGED <<gameVars, game_time_seconds, buzzer_state, isrVars,
                   mainVars, err>>
    /\ UNCHANGED <<halfway_count, ticks>>
    /\ UNCHANGED <<buzVars, press_budget>>
    /\ UNCHANGED rdrVars
    /\ UNCHANGED <<pass_sent>>
    /\ UNCHANGED <<winner>>
    /\ UNCHANGED <<sink>>
    /\ UNCHANGED <<last_press>>

\* if (xQueueReceive(network_queue, &message, portMAX_DELAY)): waits for an
\* item, then send_game_data(message) starts with attempt = 0.
NetReceive ==
    /\ net_pc = "receive"
    /\ network_queue # <<>>
    /\ net_msg' = Head(network_queue)
    /\ network_queue' = Tail(network_queue)
    /\ pending' = Tail(pending)
    /\ attempt' = 0
    /\ http_status' = "none"
    /\ tries' = 0
    /\ net_pc' = "perform"
    /\ UNCHANGED <<gameVars, game_time_seconds, buzzer_state, isrVars,
                   mainVars, err>>
    /\ UNCHANGED <<halfway_count, ticks>>
    /\ UNCHANGED <<buzVars, press_budget>>
    /\ UNCHANGED rdrVars
    /\ UNCHANGED <<pass_sent>>
    /\ UNCHANGED <<winner>>
    /\ UNCHANGED <<sink>>
    /\ UNCHANGED <<last_press>>

\* What the sink answers to a request that reached it: a status of success
\* (2xx) or a rejection (4xx, 5xx).
HttpAnswers == {"2xx", "4xx"}

\* err = esp_http_client_perform(client); if (err == ESP_OK) break;
\* the transport decides the outcome, and the sink the status when the
\* request completes; the status is only logged (line 237).
NetPerform(e) ==
    /\ net_pc = "perform"
    /\ err' = e
    /\ \E answer \in sink :
           http_status' = IF e = "ESP_OK" THEN answer ELSE "none"
    /\ tries' = IF tries <= max_retries THEN tries + 1 ELSE tries
    /\ net_pc' = IF e = "ESP_OK" THEN "cleanup" ELSE "delay"
    /\ UNCHANGED <<gameVars, game_time_seconds, buzzer_state, network_queue,
                   isrVars, mainVars, net_msg, attempt>>
    /\ UNCHANGED <<halfway_count, ticks>>
    /\ UNCHANGED <<pending>>
    /\ UNCHANGED <<buzVars, press_budget>>
    /\ UNCHANGED rdrVars
    /\ UNCHANGED <<pass_sent>>
    /\ UNCHANGED <<winner>>
    /\ UNCHANGED <<sink>>
    /\ UNCHANGED <<last_press>>

\* NetDelay with <= for <.
NetDelay_OneMore ==
    /\ net_pc = "delay"
    /\ attempt' = attempt + 1
    /\ net_pc' = IF attempt + 1 <= max_retries THEN "perform" ELSE "cleanup"
    /\ UNCHANGED <<gameVars, game_time_seconds, buzzer_state, network_queue,
                   isrVars, mainVars, net_msg, err>>
    /\ UNCHANGED <<halfway_count, ticks, tries>>
    /\ UNCHANGED <<pending>>
    /\ UNCHANGED <<buzVars, press_budget>>
    /\ UNCHANGED rdrVars
    /\ UNCHANGED <<pass_sent>>
    /\ UNCHANGED <<winner>>
    /\ UNCHANGED <<http_status>>
    /\ UNCHANGED <<sink>>
    /\ UNCHANGED <<last_press>>

\* NetDelay with attempt++ missing.
NetDelay_NoIncrement ==
    /\ net_pc = "delay"
    /\ net_pc' = IF attempt < max_retries THEN "perform" ELSE "cleanup"
    /\ UNCHANGED <<gameVars, game_time_seconds, buzzer_state, network_queue,
                   isrVars, mainVars, net_msg, attempt, err>>
    /\ UNCHANGED <<halfway_count, ticks, tries>>
    /\ UNCHANGED <<pending>>
    /\ UNCHANGED <<buzVars, press_budget>>
    /\ UNCHANGED rdrVars
    /\ UNCHANGED <<pass_sent>>
    /\ UNCHANGED <<winner>>
    /\ UNCHANGED <<http_status>>
    /\ UNCHANGED <<sink>>
    /\ UNCHANGED <<last_press>>

\* vTaskDelay(pdMS_TO_TICKS(retry_delay_ms)); attempt++;
\* while (attempt < max_retries)
NetDelay ==
    /\ net_pc = "delay"
    /\ attempt' = attempt + 1
    /\ net_pc' = IF attempt + 1 < max_retries THEN "perform" ELSE "cleanup"
    /\ UNCHANGED <<gameVars, game_time_seconds, buzzer_state, network_queue,
                   isrVars, mainVars, net_msg, err>>
    /\ UNCHANGED <<halfway_count, ticks, tries>>
    /\ UNCHANGED <<pending>>
    /\ UNCHANGED <<buzVars, press_budget>>
    /\ UNCHANGED rdrVars
    /\ UNCHANGED <<pass_sent>>
    /\ UNCHANGED <<winner>>
    /\ UNCHANGED <<http_status>>
    /\ UNCHANGED <<sink>>
    /\ UNCHANGED <<last_press>>

\* esp_http_client_cleanup(client); send_game_data returns and network_task
\* goes back to xQueueReceive.
NetCleanup ==
    /\ net_pc = "cleanup"
    /\ net_pc' = "receive"
    /\ net_msg' = NoMsg
    /\ attempt' = 0
    /\ http_status' = "none"
    /\ err' = "ESP_OK"
    /\ tries' = 0
    /\ UNCHANGED <<gameVars, game_time_seconds, buzzer_state, network_queue,
                   isrVars, mainVars>>
    /\ UNCHANGED <<halfway_count, ticks>>
    /\ UNCHANGED <<pending>>
    /\ UNCHANGED <<buzVars, press_budget>>
    /\ UNCHANGED rdrVars
    /\ UNCHANGED <<pass_sent>>
    /\ UNCHANGED <<winner>>
    /\ UNCHANGED <<sink>>
    /\ UNCHANGED <<last_press>>

Network ==
    \/ NetReceive
    \/ \E e \in {"ESP_OK", "ESP_FAIL"} : NetPerform(e)
    \/ NetDelay
    \/ NetCleanup

----------------------------------------------------------------------------
(* buzzer_task (lines 298-357).  One action per statement; a pc "bNNN" is  *)
(* line NNN of the source.  A vTaskDelay changes nothing that another      *)
(* context reads, so it is part of the statement before it.  The task has  *)
(* no core affinity: its statements interleave with every other context,   *)
(* the interrupt handler included.                                         *)

set_buzzer(on) == buzzer_on' = on

\* What a statement of buzzer_task leaves alone besides its own variables.
buzRest == <<gameVars, game_time_seconds, network_queue, isrVars, mainVars,
             netVars, histVars, press_budget>>

\* if (game_state == GAME_OFF)
Buz303 ==
    /\ buz_pc = "b303"
    /\ buz_pc' = IF game_state = "GAME_OFF" THEN "b305" ELSE "b312"
    /\ buz_seen' = {game_state}
    /\ UNCHANGED <<buzzer_state, end_game_beep_done, beep_polls, buzzer_on>>
    /\ UNCHANGED buzRest
    /\ UNCHANGED rdrVars
    /\ UNCHANGED <<pass_sent>>
    /\ UNCHANGED <<winner>>
    /\ UNCHANGED <<http_status>>
    /\ UNCHANGED <<sink>>
    /\ UNCHANGED <<last_press>>

\* buzzer_state = BUZZER_OFF;
Buz305 ==
    /\ buz_pc = "b305"
    /\ buz_pc' = "b306"
    /\ buzzer_state' = "BUZZER_OFF"
    /\ UNCHANGED <<end_game_beep_done, beep_polls, buzzer_on, buz_seen>>
    /\ UNCHANGED buzRest
    /\ UNCHANGED rdrVars
    /\ UNCHANGED <<pass_sent>>
    /\ UNCHANGED <<winner>>
    /\ UNCHANGED <<http_status>>
    /\ UNCHANGED <<sink>>
    /\ UNCHANGED <<last_press>>

\* set_buzzer(false);
Buz306 ==
    /\ buz_pc = "b306"
    /\ buz_pc' = "b307"
    /\ set_buzzer(FALSE)
    /\ UNCHANGED <<buzzer_state, end_game_beep_done, beep_polls, buz_seen>>
    /\ UNCHANGED buzRest
    /\ UNCHANGED rdrVars
    /\ UNCHANGED <<pass_sent>>
    /\ UNCHANGED <<winner>>
    /\ UNCHANGED <<http_status>>
    /\ UNCHANGED <<sink>>
    /\ UNCHANGED <<last_press>>

\* end_game_beep_done = false; vTaskDelay(100 ms); continue;
Buz307 ==
    /\ buz_pc = "b307"
    /\ buz_pc' = "b356"
    /\ end_game_beep_done' = FALSE
    /\ UNCHANGED <<buzzer_state, beep_polls, buzzer_on, buz_seen>>
    /\ UNCHANGED buzRest
    /\ UNCHANGED rdrVars
    /\ UNCHANGED <<pass_sent>>
    /\ UNCHANGED <<winner>>
    /\ UNCHANGED <<http_status>>
    /\ UNCHANGED <<sink>>
    /\ UNCHANGED <<last_press>>

\* if (game_state == GAME_FINISHED && !end_game_beep_done)
Buz312 ==
    /\ buz_pc = "b312"
    /\ buz_pc' = IF game_state = "GAME_FINISHED" /\ ~end_game_beep_done
                 THEN "b314" ELSE "b332"
    /\ buz_seen' = buz_seen \cup {game_state}
    /\ UNCHANGED <<buzzer_state, end_game_beep_done, beep_polls, buzzer_on>>
    /\ UNCHANGED buzRest
    /\ UNCHANGED rdrVars
    /\ UNCHANGED <<pass_sent>>
    /\ UNCHANGED <<winner>>
    /\ UNCHANGED <<http_status>>
    /\ UNCHANGED <<sink>>
    /\ UNCHANGED <<last_press>>

\* buzzer_state = BUZZER_FINISHED;
Buz314 ==
    /\ buz_pc = "b314"
    /\ buz_pc' = "b315"
    /\ buzzer_state' = "BUZZER_FINISHED"
    /\ UNCHANGED <<end_game_beep_done, beep_polls, buzzer_on, buz_seen>>
    /\ UNCHANGED buzRest
    /\ UNCHANGED rdrVars
    /\ UNCHANGED <<pass_sent>>
    /\ UNCHANGED <<winner>>
    /\ UNCHANGED <<http_status>>
    /\ UNCHANGED <<sink>>
    /\ UNCHANGED <<last_press>>

\* set_buzzer(true); int beep_time_ms = 0;
Buz315 ==
    /\ buz_pc = "b315"
    /\ buz_pc' = "b320"
    /\ set_buzzer(TRUE)
    /\ beep_polls' = 0
    /\ UNCHANGED <<buzzer_state, end_game_beep_done, buz_seen>>
    /\ UNCHANGED buzRest
    /\ UNCHANGED rdrVars
    /\ UNCHANGED <<pass_sent>>
    /\ UNCHANGED <<winner>>
    /\ UNCHANGED <<http_status>>
    /\ UNCHANGED <<sink>>
    /\ UNCHANGED <<last_press>>

\* Buz320 with the test of game_state missing from the loop condition.
Buz320_IgnoresPhase ==
    /\ buz_pc = "b320"
    /\ IF beep_polls < AlarmPolls
       THEN /\ buz_seen' = buz_seen \cup {game_state}
            /\ IF TRUE
               THEN /\ beep_polls' = beep_polls + 1
                    /\ buz_pc' = "b320"
               ELSE /\ beep_polls' = beep_polls
                    /\ buz_pc' = "b326"
       ELSE /\ buz_pc' = "b326"
            /\ UNCHANGED <<beep_polls, buz_seen>>
    /\ UNCHANGED <<buzzer_state, end_game_beep_done, buzzer_on>>
    /\ UNCHANGED buzRest
    /\ UNCHANGED rdrVars
    /\ UNCHANGED <<pass_sent>>
    /\ UNCHANGED <<winner>>
    /\ UNCHANGED <<http_status>>
    /\ UNCHANGED <<sink>>
    /\ UNCHANGED <<last_press>>

\* while (beep_time_ms < 10000 && game_state == GAME_FINISHED)
\*     { vTaskDelay(100 ms); beep_time_ms += 100; }
\* game_state is read only when the time is not yet up.
Buz320 ==
    /\ buz_pc = "b320"
    /\ IF beep_polls < AlarmPolls
       THEN /\ buz_seen' = buz_seen \cup {game_state}
            /\ IF game_state = "GAME_FINISHED"
               THEN /\ beep_polls' = beep_polls + 1
                    /\ buz_pc' = "b320"
               ELSE /\ beep_polls' = beep_polls
                    /\ buz_pc' = "b326"
       ELSE /\ buz_pc' = "b326"
            /\ UNCHANGED <<beep_polls, buz_seen>>
    /\ UNCHANGED <<buzzer_state, end_game_beep_done, buzzer_on>>
    /\ UNCHANGED buzRest
    /\ UNCHANGED rdrVars
    /\ UNCHANGED <<pass_sent>>
    /\ UNCHANGED <<winner>>
    /\ UNCHANGED <<http_status>>
    /\ UNCHANGED <<sink>>
    /\ UNCHANGED <<last_press>>

\* set_buzzer(false);
Buz326 ==
    /\ buz_pc = "b326"
    /\ buz_pc' = "b327"
    /\ set_buzzer(FALSE)
    /\ UNCHANGED <<buzzer_state, end_game_beep_done, beep_polls, buz_seen>>
    /\ UNCHANGED buzRest
    /\ UNCHANGED rdrVars
    /\ UNCHANGED <<pass_sent>>
    /\ UNCHANGED <<winner>>
    /\ UNCHANGED <<http_status>>
    /\ UNCHANGED <<sink>>
    /\ UNCHANGED <<last_press>>

\* end_game_beep_done = true; vTaskDelay(100 ms); continue;
Buz327 ==
    /\ buz_pc = "b327"
    /\ buz_pc' = "b356"
    /\ end_game_beep_done' = TRUE
    /\ UNCHANGED <<buzzer_state, beep_polls, buzzer_on, buz_seen>>
    /\ UNCHANGED buzRest
    /\ UNCHANGED rdrVars
    /\ UNCHANGED <<pass_sent>>
    /\ UNCHANGED <<winner>>
    /\ UNCHANGED <<http_status>>
    /\ UNCHANGED <<sink>>
    /\ UNCHANGED <<last_press>>

\* if (game_state == GAME_PLAYING && buzzer_state != BUZZER_SECONDS)
Buz332 ==
    /\ buz_pc = "b332"
    /\ buz_pc' = IF game_state = "GAME_PLAYING"
                    /\ buzzer_state # "BUZZER_SECONDS"
                 THEN "b334" ELSE "b338"
    /\ buz_seen' = buz_seen \cup {game_state}
    /\ UNCHANGED <<buzzer_state, end_game_beep_done, beep_polls, buzzer_on>>
    /\ UNCHANGED buzRest
    /\ UNCHANGED rdrVars
    /\ UNCHANGED <<pass_sent>>
    /\ UNCHANGED <<winner>>
    /\ UNCHANGED <<http_status>>
    /\ UNCHANGED <<sink>>
    /\ UNCHANGED <<last_press>>

\* buzzer_state = BUZZER_SECONDS;
Buz334 ==
    /\ buz_pc = "b334"
    /\ buz_pc' = "b335"
    /\ buzzer_state' = "BUZZER_SECONDS"
    /\ UNCHANGED <<end_game_beep_done, beep_polls, buzzer_on, buz_seen>>
    /\ UNCHANGED buzRest
    /\ UNCHANGED rdrVars
    /\ UNCHANGED <<pass_sent>>
    /\ UNCHANGED <<winner>>
    /\ UNCHANGED <<http_status>>
    /\ UNCHANGED <<sink>>
    /\ UNCHANGED <<last_press>>

\* end_game_beep_done = false;
Buz335 ==
    /\ buz_pc = "b335"
    /\ buz_pc' = "b338"
    /\ end_game_beep_done' = FALSE
    /\ UNCHANGED <<buzzer_state, beep_polls, buzzer_on, buz_seen>>
    /\ UNCHANGED buzRest
    /\ UNCHANGED rdrVars
    /\ UNCHANGED <<pass_sent>>
    /\ UNCHANGED <<winner>>
    /\ UNCHANGED <<http_status>>
    /\ UNCHANGED <<sink>>
    /\ UNCHANGED <<last_press>>

\* switch (buzzer_state); the default case only waits 100 ms.
Buz338 ==
    /\ buz_pc = "b338"
    /\ buz_pc' = CASE buzzer_state = "BUZZER_OFF"     -> "b341"
                   [] buzzer_state = "BUZZER_SECONDS" -> "b346"
                   [] OTHER                           -> "b356"
    /\ UNCHANGED <<buzzer_state, end_game_beep_done, beep_polls, buzzer_on,
                   buz_seen>>
    /\ UNCHANGED buzRest
    /\ UNCHANGED rdrVars
    /\ UNCHANGED <<pass_sent>>
    /\ UNCHANGED <<winner>>
    /\ UNCHANGED <<http_status>>
    /\ UNCHANGED <<sink>>
    /\ UNCHANGED <<last_press>>

\* case BUZZER_OFF: set_buzzer(false); vTaskDelay(100 ms); break;
Buz341 ==
    /\ buz_pc = "b341"
    /\ buz_pc' = "b356"
    /\ set_buzzer(FALSE)
    /\ UNCHANGED <<buzzer_state, end_game_beep_done, beep_polls, buz_seen>>
    /\ UNCHANGED buzRest
    /\ UNCHANGED rdrVars
    /\ UNCHANGED <<pass_sent>>
    /\ UNCHANGED <<winner>>
    /\ UNCHANGED <<http_status>>
    /\ UNCHANGED <<sink>>
    /\ UNCHANGED <<last_press>>

\* case BUZZER_SECONDS: set_buzzer(true); vTaskDelay(30 ms);
Buz346 ==
    /\ buz_pc = "b346"
    /\ buz_pc' = "b348"
    /\ set_buzzer(TRUE)
    /\ UNCHANGED <<buzzer_state, end_game_beep_done, beep_polls, buz_seen>>
    /\ UNCHANGED buzRest
    /\ UNCHANGED rdrVars
    /\ UNCHANGED <<pass_sent>>
    /\ UNCHANGED <<winner>>
    /\ UNCHANGED <<http_status>>
    /\ UNCHANGED <<sink>>
    /\ UNCHANGED <<last_press>>

\* set_buzzer(false); vTaskDelay(990 ms); break;
Buz348 ==
    /\ buz_pc = "b348"
    /\ buz_pc' = "b356"
    /\ set_buzzer(FALSE)
    /\ UNCHANGED <<buzzer_state, end_game_beep_done, beep_polls, buz_seen>>
    /\ UNCHANGED buzRest
    /\ UNCHANGED rdrVars
    /\ UNCHANGED <<pass_sent>>
    /\ UNCHANGED <<winner>>
    /\ UNCHANGED <<http_status>>
    /\ UNCHANGED <<sink>>
    /\ UNCHANGED <<last_press>>

\* The closing brace of while (1): the next pass begins.
Buz356 ==
    /\ buz_pc = "b356"
    /\ buz_pc' = "b303"
    /\ UNCHANGED <<buzzer_state, end_game_beep_done, beep_polls, buzzer_on,
                   buz_seen>>
    /\ UNCHANGED buzRest
    /\ UNCHANGED rdrVars
    /\ UNCHANGED <<pass_sent>>
    /\ UNCHANGED <<winner>>
    /\ UNCHANGED <<http_status>>
    /\ UNCHANGED <<sink>>
    /\ UNCHANGED <<last_press>>

Buzzer ==
    \/ Buz303
    \/ Buz305
    \/ Buz306
    \/ Buz307
    \/ Buz312
    \/ Buz314
    \/ Buz315
    \/ Buz320
    \/ Buz326
    \/ Buz327
    \/ Buz332
    \/ Buz334
    \/ Buz335
    \/ Buz338
    \/ Buz341
    \/ Buz346
    \/ Buz348
    \/ Buz356

----------------------------------------------------------------------------
(* display_task (lines 461-532) and led_task (lines 400-453): the workers  *)
(* that only read the game.  A pc "dNNN" or "eNNN" is line NNN; each read  *)
(* of a global is one step, and what a pass has read is kept in its view.  *)
(* What is drawn is a function of the view, so the bitmap and the pixels   *)
(* are not kept.                                                           *)

Unread == "-"
NoView == [phase |-> Unread, holder |-> Unread, elapsed |-> -1]

dispRest == <<gameVars, game_time_seconds, buzzer_state, network_queue,
              isrVars, mainVars, netVars, histVars, buzVars, press_budget>>

\* memset(bitmap, ...); if (game_state == GAME_OFF) { "Press to Start" ... }
Disp472 ==
    /\ disp_pc = "d472"
    /\ IF game_state = "GAME_OFF"
       THEN /\ disp_view' = [NoView EXCEPT !.phase = "GAME_OFF"]
            /\ disp_pc' = "d529"
       ELSE /\ disp_view' = NoView
            /\ disp_pc' = "d486"
    /\ UNCHANGED dispRest
    /\ UNCHANGED <<led_pc, led_view>>
    /\ UNCHANGED <<pass_sent>>
    /\ UNCHANGED <<winner>>
    /\ UNCHANGED <<http_status>>
    /\ UNCHANGED <<sink>>
    /\ UNCHANGED <<last_press>>

\* else if (game_state == GAME_PLAYING)
Disp486 ==
    /\ disp_pc = "d486"
    /\ IF game_state = "GAME_PLAYING"
       THEN /\ disp_view' = [disp_view EXCEPT !.phase = "GAME_PLAYING"]
            /\ disp_pc' = "d491"
       ELSE /\ disp_view' = disp_view
            /\ disp_pc' = "d517"
    /\ UNCHANGED dispRest
    /\ UNCHANGED <<led_pc, led_view>>
    /\ UNCHANGED <<pass_sent>>
    /\ UNCHANGED <<winner>>
    /\ UNCHANGED <<http_status>>
    /\ UNCHANGED <<sink>>
    /\ UNCHANGED <<last_press>>

\* int remaining_time = game_time_seconds - current_game_time; "Time: ..."
Disp491 ==
    /\ disp_pc = "d491"
    /\ disp_view' = [disp_view EXCEPT !.elapsed = current_game_time]
    /\ disp_pc' = "d509"
    /\ UNCHANGED dispRest
    /\ UNCHANGED <<led_pc, led_view>>
    /\ UNCHANGED <<pass_sent>>
    /\ UNCHANGED <<winner>>
    /\ UNCHANGED <<http_status>>
    /\ UNCHANGED <<sink>>
    /\ UNCHANGED <<last_press>>

\* winner_text = (team_color == LEFT_RED) ? "RED" : ...; "Currently: %s"
Disp509 ==
    /\ disp_pc = "d509"
    /\ disp_view' = [disp_view EXCEPT !.holder = team_color]
    /\ disp_pc' = "d529"
    /\ UNCHANGED dispRest
    /\ UNCHANGED <<led_pc, led_view>>
    /\ UNCHANGED <<pass_sent>>
    /\ UNCHANGED <<winner>>
    /\ UNCHANGED <<http_status>>
    /\ UNCHANGED <<sink>>
    /\ UNCHANGED <<last_press>>

\* else if (game_state == GAME_FINISHED)
Disp517 ==
    /\ disp_pc = "d517"
    /\ IF game_state = "GAME_FINISHED"
       THEN /\ disp_view' = [disp_view EXCEPT !.phase = "GAME_FINISHED"]
            /\ disp_pc' = "d521"
       ELSE /\ disp_view' = disp_view
            /\ disp_pc' = "d529"
    /\ UNCHANGED dispRest
    /\ UNCHANGED <<led_pc, led_view>>
    /\ UNCHANGED <<pass_sent>>
    /\ UNCHANGED <<winner>>
    /\ UNCHANGED <<http_status>>
    /\ UNCHANGED <<sink>>
    /\ UNCHANGED <<last_press>>

\* Disp521 writing the holder it has shown back as NONE.
Disp521_ClearsHolder ==
    /\ disp_pc = "d521"
    /\ disp_view' = [disp_view EXCEPT !.holder = team_color]
    /\ disp_pc' = "d529"
    /\ team_color' = "NONE"
    /\ UNCHANGED <<game_state, current_game_time, game_time_seconds,
                   buzzer_state, network_queue, isrVars, mainVars, netVars,
                   histVars, buzVars, press_budget, led_pc, led_view>>
    /\ UNCHANGED <<pass_sent>>
    /\ UNCHANGED <<winner>>
    /\ UNCHANGED <<http_status>>
    /\ UNCHANGED <<sink>>
    /\ UNCHANGED <<last_press>>

\* winner_text = (team_color == LEFT_RED) ? "RED" : ...; "Finished: %s wins!"
Disp521 ==
    /\ disp_pc = "d521"
    /\ disp_view' = [disp_view EXCEPT !.holder = team_color]
    /\ disp_pc' = "d529"
    /\ UNCHANGED dispRest
    /\ UNCHANGED <<led_pc, led_view>>
    /\ UNCHANGED <<pass_sent>>
    /\ UNCHANGED <<winner>>
    /\ UNCHANGED <<http_status>>
    /\ UNCHANGED <<sink>>
    /\ UNCHANGED <<last_press>>

\* esp_lcd_panel_draw_bitmap(...); vTaskDelay(100 ms); the next pass
Disp529 ==
    /\ disp_pc = "d529"
    /\ disp_view' = NoView
    /\ disp_pc' = "d472"
    /\ UNCHANGED dispRest
    /\ UNCHANGED <<led_pc, led_view>>
    /\ UNCHANGED <<pass_sent>>
    /\ UNCHANGED <<winner>>
    /\ UNCHANGED <<http_status>>
    /\ UNCHANGED <<sink>>
    /\ UNCHANGED <<last_press>>

Display ==
    \/ Disp472
    \/ Disp486
    \/ Disp491
    \/ Disp509
    \/ Disp517
    \/ Disp521
    \/ Disp529

ledRest == <<gameVars, game_time_seconds, buzzer_state, network_queue,
             isrVars, mainVars, netVars, histVars, buzVars, press_budget>>

\* if (game_state == GAME_OFF) { show_led(0, 0, 0, 0, ...); ... continue; }
Led407 ==
    /\ led_pc = "e407"
    /\ IF game_state = "GAME_OFF"
       THEN /\ led_view' = [NoView EXCEPT !.phase = "GAME_OFF"]
            /\ led_pc' = "e451"
       ELSE /\ led_view' = NoView
            /\ led_pc' = "e415"
    /\ UNCHANGED ledRest
    /\ UNCHANGED <<disp_pc, disp_view>>
    /\ UNCHANGED <<pass_sent>>
    /\ UNCHANGED <<winner>>
    /\ UNCHANGED <<http_status>>
    /\ UNCHANGED <<sink>>
    /\ UNCHANGED <<last_press>>

\* if (game_state == GAME_FINISHED); otherwise the pass draws the progress
\* bar whatever game_state is now.
Led415 ==
    /\ led_pc = "e415"
    /\ led_view' = [led_view EXCEPT !.phase = game_state]
    /\ led_pc' = IF game_state = "GAME_FINISHED" THEN "e417" ELSE "e430"
    /\ UNCHANGED ledRest
    /\ UNCHANGED <<disp_pc, disp_view>>
    /\ UNCHANGED <<pass_sent>>
    /\ UNCHANGED <<winner>>
    /\ UNCHANGED <<http_status>>
    /\ UNCHANGED <<sink>>
    /\ UNCHANGED <<last_press>>

\* if (team_color == LEFT_RED) show_led(red) else if (== RIGHT_BLUE)
\* show_led(blue); vTaskDelay(100 ms); continue;
Led417 ==
    /\ led_pc = "e417"
    /\ led_view' = [led_view EXCEPT !.holder = team_color]
    /\ led_pc' = "e451"
    /\ UNCHANGED ledRest
    /\ UNCHANGED <<disp_pc, disp_view>>
    /\ UNCHANGED <<pass_sent>>
    /\ UNCHANGED <<winner>>
    /\ UNCHANGED <<http_status>>
    /\ UNCHANGED <<sink>>
    /\ UNCHANGED <<last_press>>

\* int led_count = (current_game_time * NUMBER_OF_LEDS) / game_time_seconds;
Led430 ==
    /\ led_pc = "e430"
    /\ led_view' = [led_view EXCEPT !.elapsed = current_game_time]
    /\ led_pc' = "e433"
    /\ UNCHANGED ledRest
    /\ UNCHANGED <<disp_pc, disp_view>>
    /\ UNCHANGED <<pass_sent>>
    /\ UNCHANGED <<winner>>
    /\ UNCHANGED <<http_status>>
    /\ UNCHANGED <<sink>>
    /\ UNCHANGED <<last_press>>

\* for (i ...) set_led_color(i, team_color) / set_alternate_color(i, ...);
\* rmt_transmit(...).  No call in the loop can change team_color: one read.
Led433 ==
    /\ led_pc = "e433"
    /\ led_view' = [led_view EXCEPT !.holder = team_color]
    /\ led_pc' = "e451"
    /\ UNCHANGED ledRest
    /\ UNCHANGED <<disp_pc, disp_view>>
    /\ UNCHANGED <<pass_sent>>
    /\ UNCHANGED <<winner>>
    /\ UNCHANGED <<http_status>>
    /\ UNCHANGED <<sink>>
    /\ UNCHANGED <<last_press>>

\* vTaskDelay(100 ms); the next pass
Led451 ==
    /\ led_pc = "e451"
    /\ led_view' = NoView
    /\ led_pc' = "e407"
    /\ UNCHANGED ledRest
    /\ UNCHANGED <<disp_pc, disp_view>>
    /\ UNCHANGED <<pass_sent>>
    /\ UNCHANGED <<winner>>
    /\ UNCHANGED <<http_status>>
    /\ UNCHANGED <<sink>>
    /\ UNCHANGED <<last_press>>

Led ==
    \/ Led407
    \/ Led415
    \/ Led417
    \/ Led430
    \/ Led433
    \/ Led451

----------------------------------------------------------------------------
\* The values the declarations of lines 52-78 and the statement labels allow.
TypeOK ==
    /\ game_state \in GameStates
    /\ team_color \in TeamColors
    /\ buzzer_state \in BuzzerStates
    /\ current_game_time \in Int
    /\ Len(network_queue) <= QUEUE_SIZE
    /\ isr_pin \in Pins \cup {0}
    /\ attempt \in 0..max_retries
    /\ err \in {"ESP_OK", "ESP_FAIL"}
    /\ http_status \in HttpAnswers \cup {"none"}
    /\ sink \subseteq HttpAnswers
    /\ end_game_beep_done \in BOOLEAN
    /\ buzzer_on \in BOOLEAN
    /\ beep_polls \in 0..AlarmPolls
    /\ buz_seen \subseteq GameStates
    /\ press_budget \in 0..MaxPresses
    /\ disp_pc \in {"d472", "d486", "d491", "d509", "d517", "d521", "d529"}
    /\ led_pc \in {"e407", "e415", "e417", "e430", "e433", "e451"}
    /\ disp_view.phase \in GameStates \cup {Unread}
    /\ led_view.phase \in GameStates \cup {Unread}
    /\ last_press \in Pins \cup {0}

Next == ButtonIsr \/ Countdown \/ Network

Spec == Init /\ [][Next]_vars

\* One game of ScenarioSeconds seconds: a button is pressed with the game off
\* and neither button is pressed again.
ScenarioInit == InitialState(ScenarioSeconds, 0, {"2xx"})

ScenarioPress(pin) == game_state = "GAME_OFF" /\ IsrEnter(pin)

ScenarioNext ==
    \/ \E pin \in Pins : ScenarioPress(pin)
    \/ Isr551 \/ Isr566 \/ Isr568 \/ Isr569 \/ Isr570 \/ Isr571 \/ Isr581
    \/ IsrSend
    \/ IsrReturn
    \/ Countdown
    \/ Network

ScenarioSpec == ScenarioInit /\ [][ScenarioNext]_vars

\* The program with network_task scheduled fairly: the FreeRTOS scheduler
\* shares the cores among the ready tasks of one priority, and every
\* vTaskDelay and esp_http_client_perform of the worker returns.
FairInit == InitialState(FairSeconds, 0, {"2xx"})

FairSpec == FairInit /\ [][Next]_vars /\ WF_vars(Network)

\* buzzer_task beside the rest of the program, for one short game length and
\* an environment that presses a button at most MaxPresses times.
BuzzerInit == InitialState(BuzzerSeconds, MaxPresses, {"2xx"})

BuzzerPress(pin) == press_budget > 0 /\ IsrEnter(pin)

BuzzerNext ==
    \/ \E pin \in Pins : BuzzerPress(pin)
    \/ IsrStatements
    \/ Countdown
    \/ Network
    \/ Buzzer

BuzzerSpec == BuzzerInit /\ [][BuzzerNext]_vars

\* The program with a sink that can reject a request that reaches it, for a
\* game of SinkSeconds seconds.
SinkInit == InitialState(SinkSeconds, 0, HttpAnswers)

SinkSpec == SinkInit /\ [][Next]_vars

\* The program with every context running: the handler, once entered, runs
\* to its return (when the queue has room for its message); the countdown
\* loop is a task that runs again each time the handler has returned, its
\* vTaskDelay returns; network_task is scheduled as in FairSpec.  Button
\* presses come at any time and in any number, and every attempt of
\* send_game_data fails or succeeds with any answer.
LiveInit == InitialState(LiveSeconds, 0, HttpAnswers)

LiveSpec ==
    /\ LiveInit
    /\ [][Next]_vars
    /\ WF_vars(IsrStatements)
    /\ SF_vars(Countdown)
    /\ WF_vars(Network)

\* buzzer_task scheduled fairly beside the rest of the program: it is a task
\* of the scheduler and each of its vTaskDelay calls returns.  The
\* environment presses a button at most AlarmPresses times.
AlarmInit == InitialState(AlarmSeconds, AlarmPresses, {"2xx"})

AlarmSpec == AlarmInit /\ [][BuzzerNext]_vars /\ WF_vars(Buzzer)

\* The program configured with a very short game, game_time_seconds = 0
\* included.
TinyInit ==
    \E total \in 0..TinySeconds : InitialState(total, 0, {"2xx"})

TinySpec == TinyInit /\ [][Next]_vars

\* Every task of the program together, for one game of WorkersSeconds
\* seconds from the press that starts it to its end: the handler, the
\* countdown, the delivery worker, and the buzzer, display and LED workers.
WorkersInit == InitialState(WorkersSeconds, 0, {"2xx"})

WorkersNext ==
    \/ ScenarioNext
    \/ Buzzer
    \/ Display
    \/ Led

WorkersSpec == WorkersInit /\ [][WorkersNext]_vars

----------------------------------------------------------------------------
(* What the running invocation of button_isr_handler found at its entry,  *)
(* and the sides of the two buttons.                                       *)

EntryPhase == isr_entry[1]
EntryHolder == isr_entry[2]
EntryElapsed == isr_entry[3]

\* The handler is at its return.
IsrAtReturn == isr_pc = "ret"

\* The step is one of button_isr_handler / one of the countdown loop.
IsrStep == isr_pc # "idle" /\ isr_pc' # isr_pc
CountdownStep == isr_pc = "idle" /\ isr_pc' = "idle" /\ main_pc' # main_pc

\* The side and the printed name of the team of a button.
SideOfButton(pin) == IF pin = LEFT_BUTTON_PIN THEN "LEFT_RED" ELSE "RIGHT_BLUE"
NameOfButton(pin) == IF pin = LEFT_BUTTON_PIN THEN "RED" ELSE "BLUE"

----------------------------------------------------------------------------
(* C1.  Every change of game_state is one of three: GAME_OFF to            *)
(* GAME_PLAYING by a step of the button handler, GAME_PLAYING to           *)
(* GAME_FINISHED by a step of the countdown loop, GAME_FINISHED to         *)
(* GAME_OFF by a step of the button handler.                               *)
C1_PhaseTransitions ==
    [][game_state' # game_state =>
         \/ /\ game_state = "GAME_OFF"
            /\ game_state' = "GAME_PLAYING"
            /\ IsrStep
         \/ /\ game_state = "GAME_PLAYING"
            /\ game_state' = "GAME_FINISHED"
            /\ CountdownStep
         \/ /\ game_state = "GAME_FINISHED"
            /\ game_state' = "GAME_OFF"
            /\ IsrStep]_vars

\* A game has started, finished and just been reset by a press.
C1_Witness == isr_pc = "l554" /\ game_state = "GAME_OFF"

(* C2.  The button handler never waits on the queue: it is never at an     *)
(* xQueueSend while the queue is full.                                     *)
C2_HandlerNeverWaits ==
    ~(isr_pc \in IsrSendPcs /\ Len(network_queue) = QUEUE_SIZE)

(* C3.  A press handled in GAME_FINISHED ends with GAME_OFF, holder NONE,  *)
(* elapsed 0 and exactly one game-over message sent, so it starts no game; *)
(* a press handled in GAME_OFF sends a game-started message and no         *)
(* game-over message.                                                      *)
C3_ResetPress ==
    /\ (IsrAtReturn /\ EntryPhase = "GAME_FINISHED") =>
          /\ game_state = "GAME_OFF"
          /\ team_color = "NONE"
          /\ current_game_time = 0
          /\ Len(isr_sent) = 1
          /\ isr_sent[1].kind = "GAME_OVER"
    /\ (IsrAtReturn /\ EntryPhase = "GAME_OFF") =>
          /\ Len(isr_sent) = 1
          /\ isr_sent[1].kind = "GAME_STARTED"

\* A press handled in GAME_FINISHED is at its return, for a game that ran
\* its whole time.
C3_Witness ==
    /\ IsrAtReturn
    /\ EntryPhase = "GAME_FINISHED"
    /\ EntryElapsed = game_time_seconds

(* C4.  The game-over message of a press handled in GAME_FINISHED names    *)
(* the team that held the hill when the button was pressed: RED for        *)
(* LEFT_RED, BLUE for RIGHT_BLUE.                                          *)
C4_ResetNamesHolder ==
    (IsrAtReturn /\ EntryPhase = "GAME_FINISHED" /\ Len(isr_sent) = 1) =>
        /\ EntryHolder = "LEFT_RED" => isr_sent[1].team = "RED"
        /\ EntryHolder = "RIGHT_BLUE" => isr_sent[1].team = "BLUE"

(* C5.  A press handled in GAME_OFF ends with GAME_PLAYING, elapsed 0 and  *)
(* the holder of the pressed side, and has sent exactly one game-started   *)
(* message, which names that holder.                                       *)
C5_StartPress ==
    (IsrAtReturn /\ EntryPhase = "GAME_OFF") =>
        /\ game_state = "GAME_PLAYING"
        /\ current_game_time = 0
        /\ team_color = SideOfButton(isr_pin)
        /\ Len(isr_sent) = 1
        /\ isr_sent[1].kind = "GAME_STARTED"
        /\ isr_sent[1].team = NameOfButton(isr_pin)

\* A press of the right button handled in GAME_OFF is at its return.
C5_Witness ==
    /\ IsrAtReturn
    /\ EntryPhase = "GAME_OFF"
    /\ isr_pin = RIGHT_BUTTON_PIN

(* C6.  A press of the holder's own button handled in GAME_PLAYING changes *)
(* nothing: game_state, team_color and current_game_time are as found and  *)
(* the handler has put nothing on the queue.                               *)
C6_HolderPressNoOp ==
    (/\ IsrAtReturn
     /\ EntryPhase = "GAME_PLAYING"
     /\ EntryHolder = SideOfButton(isr_pin)) =>
        /\ <<game_state, team_color, current_game_time>> = isr_entry
        /\ isr_sent = <<>>

\* The right team pressed its own button part-way through a game.
C6_Witness ==
    /\ IsrAtReturn
    /\ EntryPhase = "GAME_PLAYING"
    /\ EntryHolder = "RIGHT_BLUE"
    /\ isr_pin = RIGHT_BUTTON_PIN
    /\ EntryElapsed > 0

(* C7.  A press of the other team's button handled in GAME_PLAYING ends    *)
(* with the holder of the pressed side, game_state and current_game_time   *)
(* as found, and exactly one took-the-hill message sent, which names the   *)
(* new holder and carries game_time_seconds - current_game_time as its     *)
(* minutes and seconds.                                                    *)
C7_ClaimPress ==
    (/\ IsrAtReturn
     /\ EntryPhase = "GAME_PLAYING"
     /\ EntryHolder # SideOfButton(isr_pin)) =>
        /\ team_color = SideOfButton(isr_pin)
        /\ game_state = "GAME_PLAYING"
        /\ current_game_time = EntryElapsed
        /\ Len(isr_sent) = 1
        /\ isr_sent[1].kind = "TOOK_THE_HILL"
        /\ isr_sent[1].team = NameOfButton(isr_pin)
        /\ Len(isr_sent[1].time) = 2
        /\ isr_sent[1].time[1] * 60 + isr_sent[1].time[2]
             = game_time_seconds - EntryElapsed

\* The left team took the hill from the right team part-way through a game.
C7_Witness ==
    /\ IsrAtReturn
    /\ EntryPhase = "GAME_PLAYING"
    /\ EntryHolder = "RIGHT_BLUE"
    /\ isr_pin = LEFT_BUTTON_PIN
    /\ EntryElapsed > 0
    /\ EntryElapsed < game_time_seconds

(* C8.  0 <= current_game_time <= game_time_seconds in every state.        *)
C8_ElapsedInRange ==
    /\ 0 <= current_game_time
    /\ current_game_time <= game_time_seconds

\* The countdown found the time used up and did not count further.
C8_Witness ==
    /\ main_pc = "m814"
    /\ current_game_time = game_time_seconds

(* C9.  current_game_time is 0 right after every step that makes           *)
(* game_state GAME_PLAYING, and a step that keeps game_state GAME_PLAYING   *)
(* leaves current_game_time as it is or adds 1 to it.                      *)
C9_ElapsedResetAndMonotone ==
    [][/\ (game_state # "GAME_PLAYING" /\ game_state' = "GAME_PLAYING") =>
             current_game_time' = 0
       /\ (game_state = "GAME_PLAYING" /\ game_state' = "GAME_PLAYING") =>
             current_game_time' \in {current_game_time, current_game_time + 1}
      ]_vars

\* A game has just started while the game-over message of the game before
\* it is still on the queue.
C9_Witness ==
    /\ isr_pc = "l569"
    /\ game_state = "GAME_PLAYING"
    /\ \E i \in 1..Len(network_queue) : network_queue[i].kind = "GAME_OVER"

(* C10.  No pass of the countdown loop ends with game_state GAME_PLAYING   *)
(* and current_game_time equal to game_time_seconds: the pass that makes   *)
(* the two equal is the pass that sets GAME_FINISHED.                      *)
C10_FinishedWhenTimeReached ==
    ~(/\ main_pc = "m822"
      /\ game_state = "GAME_PLAYING"
      /\ current_game_time = game_time_seconds)

----------------------------------------------------------------------------
\* The statements at which the countdown loop hands a message to xQueueSend.
MainSendPcs == {"m806", "m818"}

\* The countdown loop is between two passes.
CountdownAtRest == main_pc \in {"m797", "m822"}

\* The seconds a formatted time stands for.
SecondsOf(time) == time[1] * 60 + time[2]

(* C11.  A game gets at most one halfway message and has got exactly one   *)
(* when the countdown ends it; the message is enqueued with                *)
(* current_game_time = game_time_seconds / 2, carries the time left        *)
(* game_time_seconds - game_time_seconds / 2, and names the holder at the  *)
(* moment it is formatted.                                                 *)
C11_HalfwayOnce ==
    /\ [](/\ halfway_count <= 1
          /\ main_pc = "m814" => halfway_count = 1
          /\ game_state = "GAME_FINISHED" => halfway_count = 1
          /\ main_pc = "m806" =>
                /\ current_game_time = game_time_seconds \div 2
                /\ main_msg.kind = "HALFWAY"
                /\ SecondsOf(main_msg.time)
                     = game_time_seconds - game_time_seconds \div 2)
    /\ [][(main_pc = "m803" /\ main_pc' = "m806") =>
             /\ team_color = "LEFT_RED" => main_msg'.team = "RED"
             /\ team_color = "RIGHT_BLUE" => main_msg'.team = "BLUE"]_vars

\* The countdown ends a game in which the hill changed hands after the
\* halfway message.
C11_Witness ==
    /\ main_pc = "m814"
    /\ halfway_count = 1
    /\ isr_pc = "idle"
    /\ \E i \in 1..Len(network_queue) :
          /\ network_queue[i].kind = "TOOK_THE_HILL"
          /\ SecondsOf(network_queue[i].time) < game_time_seconds \div 2

(* C13.  Whenever the button handler is not running and the countdown loop *)
(* is between two passes, team_color is NONE exactly when game_state is    *)
(* GAME_OFF.                                                               *)
C13_HolderNoneIffIdle ==
    (isr_pc = "idle" /\ CountdownAtRest) =>
        (team_color = "NONE" <=> game_state = "GAME_OFF")

\* A finished game with its winner, nothing part-way.
C13_Witness ==
    /\ isr_pc = "idle"
    /\ CountdownAtRest
    /\ game_state = "GAME_FINISHED"
    /\ team_color = "LEFT_RED"

(* C14.  For every message it has received the delivery worker calls the   *)
(* transport at least once and at most 3 times, and calls it again only    *)
(* after a failed call and with fewer than 3 calls made.                   *)
C14_Attempts ==
    /\ tries <= 3
    /\ net_pc = "cleanup" => tries >= 1
    /\ (net_pc = "perform" /\ tries > 0) => (err = "ESP_FAIL" /\ tries < 3)
    /\ (net_pc = "cleanup" /\ err = "ESP_FAIL") => tries = 3

\* The third call for a message has failed.
C14_Witness ==
    /\ net_pc = "cleanup"
    /\ tries = 3
    /\ err = "ESP_FAIL"

(* C17.  network_queue never holds more than QUEUE_SIZE items.             *)
C17_QueueBounded == Len(network_queue) <= QUEUE_SIZE

\* The queue is full and both senders have a message for it.
C17_Witness ==
    /\ Len(network_queue) = QUEUE_SIZE
    /\ main_pc \in MainSendPcs
    /\ isr_pc \in IsrSendPcs

(* C18.  The countdown loop never waits on the queue: it is never at an    *)
(* xQueueSend while the queue is full.                                     *)
C18_CountdownNeverWaits ==
    ~(main_pc \in MainSendPcs /\ Len(network_queue) = QUEUE_SIZE)

(* C12.  In a game of N seconds with one press and no other, the halfway   *)
(* message has been enqueued when the (N / 2)-th pass of the countdown     *)
(* after the press ends, and game_state is GAME_FINISHED (its game-over    *)
(* message enqueued) when the N-th pass ends.                              *)
C12_ScenarioA ==
    /\ (main_pc = "m822" /\ ticks = game_time_seconds \div 2) =>
          halfway_count = 1
    /\ (main_pc = "m822" /\ ticks = game_time_seconds) =>
          game_state = "GAME_FINISHED"

(* C16.  With the delivery worker scheduled fairly, it always comes back   *)
(* to xQueueReceive, a message at the head of the queue is received, and a *)
(* received message is resolved: its call succeeded, or 3 calls failed.    *)
C16_DeliveryProgress ==
    /\ (net_pc # "receive") ~> (net_pc = "receive")
    /\ (network_queue # <<>>) ~> (net_pc = "perform" /\ tries = 0)
    /\ (net_pc = "perform" /\ tries = 0) ~>
          (net_pc = "cleanup" /\ (err = "ESP_OK" \/ tries = 3))

\* The worker has given a message up after three failures while the next
\* message waits on the queue.
C16_Witness ==
    /\ net_pc = "cleanup"
    /\ err = "ESP_FAIL"
    /\ tries = 3
    /\ network_queue # <<>>

(* C15.  The delivery worker receives the messages in the order in which   *)
(* they were sent, whoever sent them: the message it receives is the       *)
(* oldest one sent and not yet received, and it takes a new message only   *)
(* from xQueueReceive, after the calls for the one before are over.  The   *)
(* halfway message of a game has been sent when the countdown goes on to   *)
(* end the game, before it formats and sends its game-over message.        *)
C15_FifoDelivery ==
    /\ [][/\ (net_pc = "receive" /\ net_pc' = "perform") =>
                (pending # <<>> /\ net_msg' = Head(pending))
          /\ (net_msg' # net_msg) =>
                \/ net_pc = "receive" /\ net_pc' = "perform"
                \/ net_pc = "cleanup" /\ net_pc' = "receive"
          /\ (tries' > tries) => (net_msg' = net_msg /\ net_pc = "perform")
         ]_vars
    /\ [](main_pc = "m814" => (halfway_count = 1 /\ main_msg = NoMsg))

\* The halfway message is being retried while the game-over message of the
\* same game waits behind it.
C15_Witness ==
    /\ net_pc = "perform"
    /\ tries > 0
    /\ net_msg.kind = "HALFWAY"
    /\ network_queue # <<>>
    /\ network_queue[1].kind = "GAME_OVER"
    /\ game_state = "GAME_FINISHED"

----------------------------------------------------------------------------
(* buzzer_task *)

\* The pass of buzzer_task's loop is over: buz_seen holds every game_state
\* it read.
BuzzerPassOver == buz_pc = "b356"

\* The tick pulse of case BUZZER_SECONDS is about to be, or is being, made.
BuzzerAtTick == buz_pc \in {"b346", "b348"}

\* C19: the buzzer sounds the alarm once for every Finished game it observes,
\* also when the reset and the restart after an earlier Finished game both
\* fell between two of its polls: a pass of its loop that read only phases
\* other than GAME_FINISHED ends with end_game_beep_done false, and a pass
\* that read only GAME_FINISHED ends with the alarm sounded
\* (end_game_beep_done true).
C19_AlarmFlagResets ==
    BuzzerPassOver =>
        /\ ("GAME_FINISHED" \notin buz_seen) => ~end_game_beep_done
        /\ (buz_seen = {"GAME_FINISHED"}) => end_game_beep_done

\* C20: the tick pulse is made only in a pass of the loop that read
\* GAME_PLAYING: a pass that read only GAME_FINISHED or GAME_OFF makes none.
C20_TickOnlyWhenPlaying ==
    BuzzerAtTick => "GAME_PLAYING" \in buz_seen

----------------------------------------------------------------------------
(* The workers that read the game *)

\* A step of buzzer_task, display_task, led_task or network_task.
BuzzerStep == buz_pc' # buz_pc \/ beep_polls' # beep_polls
DisplayStep == disp_pc' # disp_pc
LedStep == led_pc' # led_pc
NetworkStep == net_pc' # net_pc \/ attempt' # attempt \/ net_msg' # net_msg

\* C21: game_state, team_color and current_game_time are changed only by
\* steps of button_isr_handler and of the countdown loop: every step of the
\* buzzer, LED, display and delivery workers leaves all three unchanged.
C21_WorkersOnlyRead ==
    [][/\ (BuzzerStep \/ DisplayStep \/ LedStep \/ NetworkStep)
            => UNCHANGED gameVars
       /\ gameVars' # gameVars => (IsrStep \/ CountdownStep)]_vars

\* All four workers are in the middle of a pass while the game is finished.
C21_Witness ==
    /\ game_state = "GAME_FINISHED"
    /\ buz_pc = "b320"
    /\ disp_pc = "d521"
    /\ led_pc = "e417"
    /\ net_pc = "perform"

\* A view that mixes the game before and the game after one transition.
TornView(v) ==
    \/ v.phase = "GAME_PLAYING" /\ v.holder = "NONE"
    \/ v.phase = "GAME_OFF" /\ v.holder \in {"LEFT_RED", "RIGHT_BLUE"}
    \/ v.phase = "GAME_OFF" /\ v.elapsed > 0

\* C22: no pass of display_task or led_task reads a combination of
\* game_state, team_color and current_game_time that mixes the state before
\* and the state after one transition: never GAME_PLAYING with NONE, never
\* GAME_OFF with a team, never GAME_OFF with a time other than 0.
C22_NoTornRead == ~TornView(disp_view) /\ ~TornView(led_view)

----------------------------------------------------------------------------
(* The game and the transport *)

\* What one statement of the handler (at ipc, for button pin) or of the
\* countdown loop (at mpc) makes of the game g = <<game_state, team_color,
\* current_game_time>>, as a function of the game and the statement alone.
GameAfter(g, ipc, pin, mpc, total) ==
    IF ipc # "idle"
    THEN CASE ipc = "l553" -> <<"GAME_OFF", g[2], g[3]>>
           [] ipc = "l554" -> <<g[1], "NONE", g[3]>>
           [] ipc = "l555" -> <<g[1], g[2], 0>>
           [] ipc = "l568" -> <<"GAME_PLAYING", g[2], g[3]>>
           [] ipc = "l569" -> <<g[1], g[2], 0>>
           [] ipc \in {"l571", "l600"} -> <<g[1], SideOfButton(pin), g[3]>>
           [] OTHER -> g
    ELSE CASE mpc = "m808" /\ g[3] < total -> <<g[1], g[2], g[3] + 1>>
           [] mpc = "m814" -> <<"GAME_FINISHED", g[2], g[3]>>
           [] OTHER -> g

\* C23: the game does not depend on the outcomes of the transport: every
\* step of the handler and of the countdown makes of game_state, team_color
\* and current_game_time what GameAfter makes of them, which reads nothing of
\* the delivery worker, whether the last attempt failed or not; and a step of
\* the delivery worker changes neither the game nor the statement the
\* handler or the countdown is at.
C23_GameIgnoresTransport ==
    [][/\ (IsrStep \/ CountdownStep) =>
            gameVars' = GameAfter(gameVars, isr_pc, isr_pin, main_pc,
                                  game_time_seconds)
       /\ NetworkStep => UNCHANGED <<gameVars, isr_pc, main_pc>>]_vars

\* The countdown is about to count a second while the transport has just
\* failed for the third time.
C23_Witness ==
    /\ main_pc = "m808"
    /\ current_game_time < game_time_seconds
    /\ net_pc = "cleanup"
    /\ err = "ESP_FAIL"
    /\ tries = max_retries

----------------------------------------------------------------------------
(* The countdown loop, continued *)

\* C24: a pass of the countdown loop that finds game_state other than
\* GAME_PLAYING goes straight to its vTaskDelay and on to the next pass: it
\* changes neither game_state, team_color nor current_game_time, formats no
\* message and sends none.
C24_IdlePassDoesNothing ==
    [][/\ (CountdownStep /\ main_pc = "m797" /\ game_state # "GAME_PLAYING")
            => /\ main_pc' = "m822"
               /\ UNCHANGED <<gameVars, network_queue, pending, main_msg>>
       /\ (CountdownStep /\ main_pc = "m822")
            => /\ main_pc' = "m797"
               /\ UNCHANGED <<gameVars, network_queue, pending, main_msg>>
      ]_vars

\* A pass has found the game off, before any game was played.
C24_Witness ==
    /\ main_pc = "m822"
    /\ game_state = "GAME_OFF"
    /\ ticks = 0
    /\ main_msg = NoMsg
    /\ pending = <<>>

C26_GameOverNamesWinner ==
    main_pc = "m818" =>
        /\ main_msg.kind = "GAME_OVER"
        /\ winner = "LEFT_RED" => main_msg.team = "RED"
        /\ winner = "RIGHT_BLUE" => main_msg.team = "BLUE"

\* The statements of the handler and of the countdown that format a message.
IsrFormatPcs == {"l558", "l581", "l611"}
MainFormatPcs == {"m803", "m816"}

\* C27: a message formatted while team_color is NONE does not name a team:
\* neither the handler nor the countdown puts RED or BLUE in a message for
\* a holder that is NONE.
C27_NoTeamForNone ==
    [][/\ (IsrStep /\ isr_pc \in IsrFormatPcs /\ team_color = "NONE")
            => isr_msg'.team \notin {"RED", "BLUE"}
       /\ (CountdownStep /\ main_pc \in MainFormatPcs /\ team_color = "NONE")
            => main_msg'.team \notin {"RED", "BLUE"}]_vars

----------------------------------------------------------------------------
(* Delivery, continued *)

\* C28: send_game_data stops retrying only when the sink has accepted the
\* message or the attempts are used up: an attempt whose request completes
\* with a rejection is a failure and is retried while attempts remain.
C28_StopsOnlyWhenAccepted ==
    (net_pc = "cleanup" /\ tries < max_retries) => http_status = "2xx"

\* C29: a message does not change between its enqueue and its last delivery
\* attempt: the queue holds exactly the messages as they were sent, it
\* changes only by a message added at its back or taken from its front, and
\* the message in delivery stays as received until delivery is over, also
\* while the countdown of a later game formats into its static buffer.
C29_EventsImmutable ==
    /\ [](network_queue = pending)
    /\ [][/\ network_queue' # network_queue =>
                \/ /\ network_queue' # <<>>
                   /\ network_queue' = Append(network_queue,
                          network_queue'[Len(network_queue')])
                \/ /\ network_queue # <<>>
                   /\ network_queue' = Tail(network_queue)
          /\ net_pc \in {"perform", "delay"} => net_msg' = net_msg]_vars

\* The countdown has formatted the halfway message of a game while the
\* halfway message of the game before is still in delivery.
C29_Witness ==
    /\ main_pc = "m806"
    /\ main_msg.kind = "HALFWAY"
    /\ net_msg.kind = "HALFWAY"
    /\ net_pc = "delay"
    /\ net_msg # main_msg

----------------------------------------------------------------------------
(* The handler, continued *)

\* C30: once current_game_time has reached game_time_seconds in a game, a
\* button press does not change the holder any more, and no "took the hill"
\* message reports a time left of 0: a press that finds the game playing
\* with no time left returns with team_color as it found it and has sent
\* nothing.
C30_NoClaimAtTimeUp ==
    IsrAtReturn =>
        /\ (EntryPhase = "GAME_PLAYING" /\ EntryElapsed = game_time_seconds)
              => (team_color = EntryHolder /\ isr_sent = <<>>)
        /\ \A i \in 1..Len(isr_sent) :
              isr_sent[i].kind = "TOOK_THE_HILL"
                  => SecondsOf(isr_sent[i].time) > 0

----------------------------------------------------------------------------
\* C31: whenever the game is being played and button_isr_handler is not
\* running, team_color is the team of the button of the last press handled
\* since the game started (the starting press when no later one came).
C31_HolderIsLastPress ==
    (game_state = "GAME_PLAYING" /\ isr_pc = "idle")
        => /\ last_press \in Pins
           /\ team_color = SideOfButton(last_press)

\* A game whose hill was taken from the starting team, still running after
\* the handler has returned: the claim message is in the queue.
C31_Witness ==
    /\ game_state = "GAME_PLAYING"
    /\ isr_pc = "idle"
    /\ last_press = RIGHT_BUTTON_PIN
    /\ team_color = "RIGHT_BLUE"
    /\ \E i \in 1..Len(network_queue) :
           /\ network_queue[i].kind = "TOOK_THE_HILL"
           /\ network_queue[i].team = "BLUE"

----------------------------------------------------------------------------
\* C32: with the countdown loop and network_task scheduled fairly, every
\* game that is started reaches GAME_FINISHED, whatever buttons are pressed
\* during it and whether the attempts of send_game_data fail or succeed.
C32_GameEnds == (game_state = "GAME_PLAYING") ~> (game_state = "GAME_FINISHED")

----------------------------------------------------------------------------
\* buzzer_task is in the loop of lines 320-324: the alarm sounds.
AlarmSounding == buz_pc = "b320"

\* C33: an alarm started by buzzer_task always ends with the buzzer off.  While
\* it sounds the buzzer is on and at most AlarmPolls polls have passed; the
\* poll that finds AlarmPolls polls done, or game_state no longer
\* GAME_FINISHED after a button press, ends the loop; the buzzer is off
\* after line 326, at the start of every pass of the task and so when the
\* task finds GAME_OFF; and every alarm that sounds comes to line 327 with
\* the buzzer off.
C33_AlarmEndsOff ==
    /\ [](AlarmSounding => (buzzer_on /\ beep_polls <= AlarmPolls))
    /\ [][(AlarmSounding /\ BuzzerStep
              /\ (beep_polls = AlarmPolls \/ game_state # "GAME_FINISHED"))
             => buz_pc' = "b326"]_vars
    /\ [](buz_pc \in {"b303", "b305", "b327"} => ~buzzer_on)
    /\ AlarmSounding ~> (buz_pc = "b327" /\ ~buzzer_on)

\* An alarm cut short by a reset press: it has ended, with the buzzer off,
\* before AlarmPolls polls have passed.
C33_Witness ==
    /\ buz_pc = "b327"
    /\ ~buzzer_on
    /\ beep_polls < AlarmPolls
    /\ game_state = "GAME_OFF"
====
